---- MODULE Spec2Model ----
(***************************************************************************)
(* Task Manager: the Express routes over the Mongoose Task model, the      *)
(* process bootstrap, and the React client (API client, state container,   *)
(* form).  The persisted collection, the requests and the responses are    *)
(* the state; every route handler and every client handler is one action.  *)
(***************************************************************************)
EXTENDS Integers, Sequences, FiniteSets, TLC

(***************************************************************************)
(* Bounds of the model.                                                    *)
(***************************************************************************)
MaxLen == 2        \* longest text a request carries in a title
MaxDescLen == 1    \* longest text a request carries in a description
MaxTasks == 2      \* most tasks stored at once
MaxFieldTasks == 1 \* most tasks stored at once where the fields vary
MaxIds == 2        \* ids the persistence layer generates
MaxClock == 1      \* last instant of the clock
MaxFormLen == 3    \* longest text typed into the form's title
MaxInFlight == 2   \* most requests of the client awaiting their caller
MaxSerial == 1     \* the same, where the client waits for each answer
MaxListLen == 3    \* longest list the list component is rendered with
MaxTotal == 200    \* longest list the statistics are computed of
MaxHandlers == 2   \* most handler invocations followed across their await

(***************************************************************************)
(* Text.  A text is a sequence of characters; " " is the whitespace.       *)
(***************************************************************************)
Chars == {" ", "a"}

TextsUpTo(n) == UNION {[1..k -> Chars] : k \in 0..n}

IsSpace(c) == c = " "

RECURSIVE TrimStart(_)
TrimStart(s) ==
    IF s # <<>> /\ IsSpace(Head(s)) THEN TrimStart(Tail(s)) ELSE s

RECURSIVE TrimEnd(_)
TrimEnd(s) ==
    IF s # <<>> /\ IsSpace(s[Len(s)])
    THEN TrimEnd(SubSeq(s, 1, Len(s) - 1))
    ELSE s

\* String.prototype.trim / the schema's trim setter.
Trim(s) == TrimEnd(TrimStart(s))

(***************************************************************************)
(* Optional values: a key a mapping may omit is the empty set when         *)
(* omitted and a singleton when present.                                   *)
(***************************************************************************)
None == {}
Some(x) == {x}
Present(o) == o # {}
The(o) == CHOOSE x \in o : TRUE
Opt(S) == {None} \cup {Some(x) : x \in S}

(***************************************************************************)
(* The Task schema.                                                        *)
(***************************************************************************)
PriorityEnum == {"low", "medium", "high"}
DefaultPriority == "medium"
DefaultCompleted == FALSE
DefaultDescription ==
    <<"d", "e", "f", "a", "u", "l", "t", " ", "v", "a", "l", "u", "e">>

\* Mongoose's boolean cast of a JSON value: the empty set is a CastError.
CastBoolean(v) ==
    IF v = "true" THEN {TRUE} ELSE IF v = "false" THEN {FALSE} ELSE {}

(***************************************************************************)
(* Identifiers.  Well-formed keys are the positive naturals, generated in  *)
(* order by the persistence layer; anything else is malformed.             *)
(***************************************************************************)
Oids == 1..MaxIds
MalformedIds == {-1}
IsValidObjectId(id) == id >= 1

(***************************************************************************)
(* State.                                                                  *)
(*   db       the tasks collection, in natural (insertion) order           *)
(*   clock    the server's current instant (Date.now)                      *)
(*   nextOid  the next key the persistence layer generates                 *)
(*   req,res  the request last handled and the response sent for it        *)
(*   deleted  history: the ids a DELETE has answered 200 for               *)
(*   posted   history: per id, the record a POST returned for it, until    *)
(*            the next successful PUT or DELETE of that id                 *)
(*   handlers the handler invocations of the task routes that are followed *)
(*            across their await, in the order the requests came in        *)
(***************************************************************************)
VARIABLES db, clock, nextOid, req, res, deleted, posted, handlers

serverVars == <<db, clock, nextOid, req, res, deleted, posted, handlers>>

(***************************************************************************)
(* Request bodies: a mapping that may carry _id and the schema's paths.    *)
(***************************************************************************)
Body(i, t, d, c, p) ==
    [id |-> i, title |-> t, description |-> d, completed |-> c, priority |-> p]

EmptyBody == Body(None, None, None, None, None)

BodyKeys(body) ==
    {k \in {"id", "title", "description", "completed", "priority"} :
        Present(body[k])}

(***************************************************************************)
(* Results of a persistence call: it throws, or it returns a value (a      *)
(* document, or None for null) and leaves the collection as coll.          *)
(***************************************************************************)
Returns(coll, value) ==
    [threw |-> FALSE, error |-> "", value |-> value, coll |-> coll]

Throws(coll, message) ==
    [threw |-> TRUE, error |-> message, value |-> None, coll |-> coll]

Ids(coll) == {coll[i].id : i \in 1..Len(coll)}

IndexOf(coll, id) == CHOOSE i \in 1..Len(coll) : coll[i].id = id

\* The document with this id, or None.
Lookup(coll, id) == {coll[i] : i \in {j \in 1..Len(coll) : coll[j].id = id}}

Without(coll, i) == SubSeq(coll, 1, i - 1) \o SubSeq(coll, i + 1, Len(coll))

(***************************************************************************)
(* Schema casting and validation.                                          *)
(***************************************************************************)
CastFails(body) ==
    IF Present(body.completed)
    THEN CastBoolean(The(body.completed)) = {}
    ELSE FALSE

\* A variant of TitleMissing that accepts whitespace-only titles.
TitleMissingUntrimmed(body) ==
    IF Present(body.title) THEN The(body.title) = <<>> ELSE TRUE

\* required: true on title, checked after the trim setter.
TitleMissing(body) ==
    IF Present(body.title) THEN Trim(The(body.title)) = <<>> ELSE TRUE

\* enum on priority.
PriorityInvalid(body) ==
    IF Present(body.priority)
    THEN The(body.priority) \notin PriorityEnum
    ELSE FALSE

\* Document validation on save.
CreateInvalid(body) ==
    CastFails(body) \/ TitleMissing(body) \/ PriorityInvalid(body)

\* Update validators (runValidators): only the paths the update sets.
UpdateInvalid(body) ==
    \/ CastFails(body)
    \/ Present(body.title) /\ TitleMissing(body)
    \/ PriorityInvalid(body)

\* A variant of NewDoc that takes completed and priority from a fixed
\* template instead of the schema defaults.
NewDocNoDefaults(body, oid, now) ==
    [id |-> IF Present(body.id) THEN The(body.id) ELSE oid,
     title |-> Trim(The(body.title)),
     description |->
        IF Present(body.description)
        THEN Trim(The(body.description))
        ELSE DefaultDescription,
     completed |->
        IF Present(body.completed)
        THEN The(CastBoolean(The(body.completed)))
        ELSE TRUE,
     priority |->
        IF Present(body.priority) THEN The(body.priority) ELSE "low",
     createdAt |-> now,
     updatedAt |-> now]

\* The document a valid body makes: setters, defaults, timestamps.
NewDoc(body, oid, now) ==
    [id |-> IF Present(body.id) THEN The(body.id) ELSE oid,
     title |-> Trim(The(body.title)),
     description |->
        IF Present(body.description)
        THEN Trim(The(body.description))
        ELSE DefaultDescription,
     completed |->
        IF Present(body.completed)
        THEN The(CastBoolean(The(body.completed)))
        ELSE DefaultCompleted,
     priority |->
        IF Present(body.priority) THEN The(body.priority) ELSE DefaultPriority,
     createdAt |-> now,
     updatedAt |-> now]

\* A variant of Merged that replaces the whole document by the body,
\* unsent fields falling back to the schema defaults.
MergedReplace(doc, body, now) ==
    [id |-> doc.id,
     title |-> IF Present(body.title) THEN Trim(The(body.title)) ELSE doc.title,
     description |->
        IF Present(body.description)
        THEN Trim(The(body.description))
        ELSE DefaultDescription,
     completed |->
        IF Present(body.completed)
        THEN The(CastBoolean(The(body.completed)))
        ELSE DefaultCompleted,
     priority |->
        IF Present(body.priority) THEN The(body.priority) ELSE DefaultPriority,
     createdAt |-> doc.createdAt,
     updatedAt |-> now]

\* The document after $set of the body's paths; updatedAt is stamped.
Merged(doc, body, now) ==
    [doc EXCEPT
        !.title = IF Present(body.title) THEN Trim(The(body.title)) ELSE @,
        !.description =
            IF Present(body.description) THEN Trim(The(body.description)) ELSE @,
        !.completed =
            IF Present(body.completed)
            THEN The(CastBoolean(The(body.completed)))
            ELSE @,
        !.priority = IF Present(body.priority) THEN The(body.priority) ELSE @,
        !.updatedAt = now]

(***************************************************************************)
(* The persistence calls the routes issue.  fault: the call fails for a    *)
(* reason outside the request (the connection is lost).                    *)
(***************************************************************************)
Orderings(coll) ==
    {[i \in 1..Len(coll) |-> coll[f[i]]] :
        f \in {g \in [1..Len(coll) -> 1..Len(coll)] :
                 \A a, b \in 1..Len(coll) : a # b => g[a] # g[b]}}

\* Whether a sort on createdAt in direction dir (1 ascending, -1
\* descending) may place document x before document y.
MayPrecede(x, y, dir) ==
    IF dir = -1 THEN x.createdAt >= y.createdAt ELSE x.createdAt <= y.createdAt

\* .sort({ createdAt: dir }): the orders the sort may return (the order
\* among equal keys is the engine's choice).
SortByCreatedAt(coll, dir) ==
    {seq \in Orderings(coll) :
        \A i \in 1..Len(seq) : \A j \in i..Len(seq) :
            MayPrecede(seq[i], seq[j], dir)}

\* A variant of Sorted that sorts ascending.
SortedAscending(coll) == SortByCreatedAt(coll, 1)

\* .sort({ createdAt: -1 })
Sorted(coll) == SortByCreatedAt(coll, -1)

\* Task.find({}).sort({ createdAt: -1 }): the possible results.
Find(coll, fault) ==
    IF fault
    THEN {Throws(coll, "connection lost")}
    ELSE {Returns(coll, seq) : seq \in Sorted(coll)}

\* A variant of FindById that takes a malformed id for one that matches
\* nothing.
FindByIdLenient(coll, id, fault) ==
    IF fault THEN Throws(coll, "connection lost")
    ELSE Returns(coll, Lookup(coll, id))

\* Task.findById(id)
FindById(coll, id, fault) ==
    IF ~IsValidObjectId(id) THEN Throws(coll, "Cast to ObjectId failed")
    ELSE IF fault THEN Throws(coll, "connection lost")
    ELSE Returns(coll, Lookup(coll, id))

\* A variant of Create that returns the description as the body gave it.
CreateEchoesBody(coll, body, oid, now, fault) ==
    IF CreateInvalid(body) THEN Throws(coll, "Task validation failed")
    ELSE IF fault THEN Throws(coll, "connection lost")
    ELSE IF NewDoc(body, oid, now).id \in Ids(coll)
         THEN Throws(coll, "E11000 duplicate key")
    ELSE Returns(Append(coll, NewDoc(body, oid, now)),
                 Some([NewDoc(body, oid, now) EXCEPT
                         !.description =
                            IF Present(body.description)
                            THEN The(body.description)
                            ELSE <<>>]))

\* Task.create(body); oid is the key generated for the new document.
Create(coll, body, oid, now, fault) ==
    IF CreateInvalid(body) THEN Throws(coll, "Task validation failed")
    ELSE IF fault THEN Throws(coll, "connection lost")
    ELSE IF NewDoc(body, oid, now).id \in Ids(coll)
         THEN Throws(coll, "E11000 duplicate key")
    ELSE Returns(Append(coll, NewDoc(body, oid, now)),
                 Some(NewDoc(body, oid, now)))

\* A variant of FindByIdAndUpdate that inserts where the id matches nothing
\* (upsert: true).
FindByIdAndUpsert(coll, id, body, now, fault) ==
    IF ~IsValidObjectId(id) THEN Throws(coll, "Cast to ObjectId failed")
    ELSE IF UpdateInvalid(body) THEN Throws(coll, "Validation failed")
    ELSE IF fault THEN Throws(coll, "connection lost")
    ELSE IF id \notin Ids(coll)
         THEN LET doc == Merged(NewDoc(Body(Some(id), Some(<<"a">>), None, None,
                                            None), id, now), body, now)
              IN  Returns(Append(coll, doc), Some(doc))
    ELSE IF Present(body.id) /\ The(body.id) # id
         THEN Throws(coll, "would modify the immutable field _id")
    ELSE LET i == IndexOf(coll, id)
             doc == Merged(coll[i], body, now)
         IN  Returns([coll EXCEPT ![i] = doc], Some(doc))

\* Task.findByIdAndUpdate(id, body, { new: true, runValidators: true })
FindByIdAndUpdate(coll, id, body, now, fault) ==
    IF ~IsValidObjectId(id) THEN Throws(coll, "Cast to ObjectId failed")
    ELSE IF UpdateInvalid(body) THEN Throws(coll, "Validation failed")
    ELSE IF fault THEN Throws(coll, "connection lost")
    ELSE IF id \notin Ids(coll) THEN Returns(coll, None)
    ELSE IF Present(body.id) /\ The(body.id) # id
         THEN Throws(coll, "would modify the immutable field _id")
    ELSE LET i == IndexOf(coll, id)
             doc == Merged(coll[i], body, now)
         IN  Returns([coll EXCEPT ![i] = doc], Some(doc))

\* Task.findByIdAndDelete(id)
FindByIdAndDelete(coll, id, fault) ==
    IF ~IsValidObjectId(id) THEN Throws(coll, "Cast to ObjectId failed")
    ELSE IF fault THEN Throws(coll, "connection lost")
    ELSE IF id \notin Ids(coll) THEN Returns(coll, None)
    ELSE Returns(Without(coll, IndexOf(coll, id)), Lookup(coll, id))

(***************************************************************************)
(* Responses: res.status(n).json(body).  A detail that is a string is      *)
(* tagged as such, to tell it from the empty mapping {}.                   *)
(***************************************************************************)
Json(status, body) == [status |-> status, body |-> body]

HasKey(m, k) == k \in DOMAIN m

Str(s) == [type |-> "string", value |-> s]
EmptyObject == [type |-> "object"]

Request(route, id, body, fault) ==
    [route |-> route, id |-> id, body |-> body, fault |-> fault]

NoRequest == Request("none", None, None, FALSE)
NoResponse == Json(0, <<>>)

GetAllResponse(r) ==
    IF r.threw
    THEN Json(500, [success |-> FALSE, message |-> "Server Error",
                    error |-> Str(r.error)])
    ELSE Json(200, [success |-> TRUE, count |-> Len(r.value), data |-> r.value])

\* A variant of GetOneResponse that sends the task itself as the body.
GetOneResponseBare(r) ==
    IF r.threw
    THEN Json(400, [success |-> FALSE, message |-> "Invalid task ID",
                    error |-> Str(r.error)])
    ELSE IF r.value = None
    THEN Json(404, [success |-> FALSE, message |-> "Task not found"])
    ELSE Json(200, The(r.value))

GetOneResponse(r) ==
    IF r.threw
    THEN Json(400, [success |-> FALSE, message |-> "Invalid task ID",
                    error |-> Str(r.error)])
    ELSE IF r.value = None
    THEN Json(404, [success |-> FALSE, message |-> "Task not found"])
    ELSE Json(200, [success |-> TRUE, data |-> The(r.value)])

PostResponse(r) ==
    IF r.threw
    THEN Json(400, [success |-> FALSE, message |-> "Error creating task",
                    error |-> Str(r.error)])
    ELSE Json(201, [success |-> TRUE, message |-> "Task created successfully",
                    data |-> The(r.value)])

PutResponse(r) ==
    IF r.threw
    THEN Json(400, [success |-> FALSE, message |-> "Error updating task",
                    error |-> Str(r.error)])
    ELSE IF r.value = None
    THEN Json(404, [success |-> FALSE, message |-> "Task not found"])
    ELSE Json(200, [success |-> TRUE, message |-> "Task updated successfully",
                    data |-> The(r.value)])

DeleteResponse(r) ==
    IF r.threw
    THEN Json(400, [success |-> FALSE, message |-> "Error deleting task",
                    error |-> Str(r.error)])
    ELSE IF r.value = None
    THEN Json(404, [success |-> FALSE, message |-> "Task not found"])
    ELSE Json(200, [success |-> TRUE, message |-> "Task deleted successfully",
                    data |-> The(r.value)])

(***************************************************************************)
(* The five task routes.  Each handler issues one persistence call and     *)
(* answers from its result.                                                *)
(***************************************************************************)
\* router.get('/')
RouterGetAll(fault) ==
    /\ \E r \in Find(db, fault) : res' = GetAllResponse(r)
    /\ req' = Request("GET /api/tasks", None, None, fault)
    /\ UNCHANGED <<db, clock, nextOid, deleted, posted, handlers>>

\* router.get('/:id')
RouterGetOne(id, fault) ==
    /\ res' = GetOneResponse(FindById(db, id, fault))
    /\ req' = Request("GET /api/tasks/:id", Some(id), None, fault)
    /\ UNCHANGED <<db, clock, nextOid, deleted, posted, handlers>>

\* router.post('/')
RouterPost(body, fault) ==
    LET r == Create(db, body, nextOid, clock, fault) IN
    /\ r.threw \/ (Len(db) < MaxTasks /\ (Present(body.id) \/ nextOid <= MaxIds))
    /\ db' = r.coll
    /\ res' = PostResponse(r)
    /\ req' = Request("POST /api/tasks", None, Some(body), fault)
    /\ nextOid' = IF ~r.threw /\ ~Present(body.id) THEN nextOid + 1 ELSE nextOid
    /\ posted' = IF r.threw THEN posted
                 ELSE [posted EXCEPT ![The(r.value).id] = r.value]
    /\ UNCHANGED <<clock, deleted, handlers>>

\* router.put('/:id')
RouterPut(id, body, fault) ==
    LET r == FindByIdAndUpdate(db, id, body, clock, fault) IN
    /\ db' = r.coll
    /\ res' = PutResponse(r)
    /\ req' = Request("PUT /api/tasks/:id", Some(id), Some(body), fault)
    /\ posted' = IF r.threw \/ r.value = None THEN posted
                 ELSE [posted EXCEPT ![id] = None]
    /\ UNCHANGED <<clock, nextOid, deleted, handlers>>

\* router.delete('/:id')
RouterDelete(id, fault) ==
    LET r == FindByIdAndDelete(db, id, fault) IN
    /\ db' = r.coll
    /\ res' = DeleteResponse(r)
    /\ req' = Request("DELETE /api/tasks/:id", Some(id), None, fault)
    /\ deleted' = IF r.threw \/ r.value = None THEN deleted
                  ELSE deleted \cup {id}
    /\ posted' = IF r.threw \/ r.value = None THEN posted
                 ELSE [posted EXCEPT ![id] = None]
    /\ UNCHANGED <<clock, nextOid, handlers>>

(***************************************************************************)
(* The same five handlers followed across their await: a request comes in  *)
(* and its handler runs up to the persistence call it awaits (Receive),    *)
(* the persistence layer executes the call (Persist), and the handler      *)
(* resumes with the result and responds (Resume).  The handlers of other   *)
(* requests run in between.                                                *)
(*   request  the request the handler was invoked with                     *)
(*   state    "awaiting" its call, "settled" once the call has a result,   *)
(*            "done" once the handler has returned                         *)
(*   calls    the persistence calls the handler has issued                 *)
(*   result   the result its call settled with, None before                *)
(*   sent     the responses the handler has sent                           *)
(*   others   history: the handlers that were awaiting their own call when *)
(*            this one's was executed                                      *)
(***************************************************************************)
Invocation(request) ==
    [request |-> request, state |-> "awaiting", calls |-> 1, result |-> None,
     sent |-> <<>>, others |-> {}]

\* The persistence call the handler of request awaits: its possible results
\* on the collection coll.
PersistenceCall(request, coll, oid, now) ==
    IF request.route = "GET /api/tasks" THEN Find(coll, request.fault)
    ELSE IF request.route = "GET /api/tasks/:id"
    THEN {FindById(coll, The(request.id), request.fault)}
    ELSE IF request.route = "POST /api/tasks"
    THEN {Create(coll, The(request.body), oid, now, request.fault)}
    ELSE IF request.route = "PUT /api/tasks/:id"
    THEN {FindByIdAndUpdate(coll, The(request.id), The(request.body), now,
                            request.fault)}
    ELSE {FindByIdAndDelete(coll, The(request.id), request.fault)}

\* The response the handler of route builds from the result r of its call.
HandlerResponse(route, r) ==
    IF route = "GET /api/tasks" THEN GetAllResponse(r)
    ELSE IF route = "GET /api/tasks/:id" THEN GetOneResponse(r)
    ELSE IF route = "POST /api/tasks" THEN PostResponse(r)
    ELSE IF route = "PUT /api/tasks/:id" THEN PutResponse(r)
    ELSE DeleteResponse(r)

\* The routes whose handler tests its result for null.
NullTested ==
    {"GET /api/tasks/:id", "PUT /api/tasks/:id", "DELETE /api/tasks/:id"}

\* The call of a handler of route returned null.
ReturnedNull(route, r) ==
    IF route \in NullTested /\ ~r.threw THEN r.value = None ELSE FALSE

\* A variant of HandlerSends whose 404 branch does not return.
HandlerSendsFallingThrough(route, r) ==
    IF ReturnedNull(route, r)
    THEN <<HandlerResponse(route, r), Json(200, [success |-> TRUE])>>
    ELSE <<HandlerResponse(route, r)>>

\* The responses a resumed handler sends: the catch block's where the call
\* threw; the 404 where it returned null, after which the handler returns;
\* the success response otherwise.
HandlerSends(route, r) == <<HandlerResponse(route, r)>>

\* A request comes in and its handler runs up to its await.  A POST comes
\* in only while the collection and the ids of the model have room for the
\* records of all the POSTs under way.
Receive(route, id, body, fault) ==
    LET posts == {h \in 1..Len(handlers) :
                     /\ handlers[h].request.route = "POST /api/tasks"
                     /\ handlers[h].state = "awaiting"}
    IN  /\ Len(handlers) < MaxHandlers
        /\ route = "POST /api/tasks"
           => /\ Len(db) + Cardinality(posts) < MaxTasks
              /\ nextOid + Cardinality(posts) <= MaxIds
        /\ handlers' = Append(handlers,
                              Invocation(Request(route, id, body, fault)))
        /\ UNCHANGED <<db, clock, nextOid, req, res, deleted, posted>>

\* The persistence layer executes the call handler h awaits.
Persist(h) ==
    LET request == handlers[h].request
        changes(r) ==
            IF request.route \in {"PUT /api/tasks/:id", "DELETE /api/tasks/:id"}
            THEN ~r.threw /\ r.value # None
            ELSE FALSE
    IN  /\ handlers[h].state = "awaiting"
        /\ \E r \in PersistenceCall(request, db, nextOid, clock) :
              /\ db' = r.coll
              /\ handlers' =
                    [handlers EXCEPT
                        ![h].state = "settled",
                        ![h].result = Some(r),
                        ![h].others =
                           {j \in 1..Len(handlers) :
                               j # h /\ handlers[j].state = "awaiting"}]
              /\ nextOid' =
                    IF /\ request.route = "POST /api/tasks"
                       /\ ~r.threw
                       /\ ~Present(The(request.body).id)
                    THEN nextOid + 1
                    ELSE nextOid
              /\ deleted' =
                    IF request.route = "DELETE /api/tasks/:id" /\ changes(r)
                    THEN deleted \cup {The(request.id)}
                    ELSE deleted
              /\ posted' =
                    IF request.route = "POST /api/tasks" /\ ~r.threw
                    THEN [posted EXCEPT ![The(r.value).id] = r.value]
                    ELSE IF changes(r)
                    THEN [posted EXCEPT ![The(request.id)] = None]
                    ELSE posted
        /\ UNCHANGED <<clock, req, res>>

\* Handler h resumes with the result of its call, responds and returns.
Resume(h) ==
    LET request == handlers[h].request
        sends == HandlerSends(request.route, The(handlers[h].result))
    IN  /\ handlers[h].state = "settled"
        /\ handlers' = [handlers EXCEPT ![h].state = "done",
                                        ![h].sent = @ \o sends]
        /\ req' = request
        /\ res' = sends[Len(sends)]
        /\ UNCHANGED <<db, clock, nextOid, deleted, posted>>

(***************************************************************************)
(* The bootstrap's own responders.                                         *)
(***************************************************************************)
TaskRoutes ==
    {"GET /api/tasks", "GET /api/tasks/:id", "POST /api/tasks",
     "PUT /api/tasks/:id", "DELETE /api/tasks/:id"}

\* app.get('/')
RootRoute ==
    /\ res' = Json(200, [message |-> "Welcome to Task Manager API",
                         version |-> "1.0.0",
                         endpoints |-> [r \in TaskRoutes |-> "documented"]])
    /\ req' = Request("GET /", None, None, FALSE)
    /\ UNCHANGED <<db, clock, nextOid, deleted, posted, handlers>>

\* app.use('*'): any path or method no route above matches
NotFoundHandler ==
    /\ res' = Json(404, [success |-> FALSE, message |-> "Route not found"])
    /\ req' = Request("*", None, None, FALSE)
    /\ UNCHANGED <<db, clock, nextOid, deleted, posted, handlers>>

\* app.use((err, req, res, next) => ...): a middleware passed an error on
\* (express.json() on a body that is not JSON); nodeEnv is what
\* process.env.NODE_ENV reads as.
ErrorHandler(nodeEnv) ==
    /\ res' = Json(500, [success |-> FALSE, message |-> "Something went wrong!",
                         error |-> IF nodeEnv = "development"
                                   THEN Str("Unexpected token")
                                   ELSE EmptyObject])
    /\ req' = Request("error", None, None, FALSE)
    /\ UNCHANGED <<db, clock, nextOid, deleted, posted, handlers>>

\* Time passes.
Tick ==
    /\ clock < MaxClock
    /\ clock' = clock + 1
    /\ UNCHANGED <<db, nextOid, req, res, deleted, posted, handlers>>

(***************************************************************************)
(* The client: the task form, the API client, the application container    *)
(* and the task list.                                                      *)
(*   formData      the form's field values                                 *)
(*   errors        the form's validation messages, "" for none             *)
(*   isSubmitting  the form is waiting for its submit handler              *)
(*   tasks, error  the container's task list and error banner              *)
(*   editingTask   the task being edited, None for null                    *)
(*   loading       the container is fetching the list                      *)
(*   loadingTasks  the ids the list marks as busy                          *)
(*   filter,sortBy the list's view settings                                *)
(*   inflight      the HTTP requests the API client has issued, each with  *)
(*                 what its caller captured, until their caller resumes    *)
(*   ui            the client call last made and how it ended              *)
(***************************************************************************)
VARIABLES formData, errors, isSubmitting, tasks, error, editingTask, loading,
          loadingTasks, filter, sortBy, inflight, ui

formVars == <<formData, errors, isSubmitting>>
appVars == <<tasks, error, editingTask, loading>>
listVars == <<loadingTasks, filter, sortBy>>
clientVars == <<formVars, appVars, listVars, inflight, ui>>
vars == <<serverVars, clientVars>>

TitleMinLength == 3
TitleMaxLength == 100
DescriptionMaxLength == 250

InitialFormData == [title |-> <<>>, description |-> <<>>, priority |-> "medium"]

NoErrors == [title |-> "", description |-> "", submit |-> ""]

\* A client call as ui records it: the handler or function, the data it
\* was handed, whether it threw at once; for a call that resumed, the value
\* its API call resolved to (None where it rejected) and the message of
\* the Error it rejected with.
Call(event, taskData, threw) ==
    [event |-> event, taskData |-> taskData, threw |-> threw,
     value |-> None, message |-> ""]

Settled(event, value, message) ==
    [event |-> event, taskData |-> None, threw |-> FALSE,
     value |-> value, message |-> message]

\* The event of a call that threw an Error with message before any request.
Thrown(event, taskData, message) ==
    [event |-> event, taskData |-> taskData, threw |-> TRUE,
     value |-> None, message |-> message]

\* A variant of ValidateForm that measures the title as typed.
ValidateFormUntrimmed(data) ==
    [title |->
        IF Len(data.title) = 0 THEN "Task title is required"
        ELSE IF Len(data.title) < TitleMinLength
             THEN "Title must be at least 3 characters long"
        ELSE IF Len(data.title) > TitleMaxLength
             THEN "Title must be less than 100 characters"
        ELSE "",
     description |->
        IF Len(data.description) > DescriptionMaxLength
        THEN "Description must be less than 250 characters"
        ELSE "",
     submit |-> ""]

\* validateForm: the messages it sets.
ValidateForm(data) ==
    [title |->
        IF Len(Trim(data.title)) = 0 THEN "Task title is required"
        ELSE IF Len(Trim(data.title)) < TitleMinLength
             THEN "Title must be at least 3 characters long"
        ELSE IF Len(Trim(data.title)) > TitleMaxLength
             THEN "Title must be less than 100 characters"
        ELSE "",
     description |->
        IF Len(data.description) > DescriptionMaxLength
        THEN "Description must be less than 250 characters"
        ELSE "",
     submit |-> ""]

\* handleSubmit's dataToSubmit
DataToSubmit(data) ==
    Body(None, Some(Trim(data.title)), Some(Trim(data.description)), None,
         Some(data.priority))

\* A variant of CreateTaskRejects that tests the title as given.
CreateTaskRejectsUntrimmed(taskData) ==
    IF Present(taskData.title) THEN The(taskData.title) = <<>> ELSE TRUE

\* createTask's guard: !taskData.title || taskData.title.trim() === ''
CreateTaskRejects(taskData) ==
    IF Present(taskData.title)
    THEN The(taskData.title) = <<>> \/ Trim(The(taskData.title)) = <<>>
    ELSE TRUE

\* A request the API client has issued for caller, which resumes with the
\* task list and the editing state it captured.  failure: "" while the
\* request may yet be answered, "request" once it is known that no
\* response arrives, "setup" where the request could not be set up.
\* mounted: the list component the action was started from, if any, is
\* still mounted, so that its state setters still take effect.
Sent(caller, method, id, taskData, captured, editing) ==
    [caller |-> caller, method |-> method, id |-> id, body |-> taskData,
     tasks |-> captured, editing |-> editing, answered |-> FALSE,
     failure |-> "", response |-> NoResponse, mounted |-> TRUE]

\* api.post('/tasks', taskData), issued on behalf of caller, which resumes
\* with the task list it captured.
Post(caller, taskData, captured) ==
    Sent(caller, "POST", None, taskData, captured, None)

\* The response interceptor: the value a response resolves to, or None
\* where it throws.
Intercepted(response) ==
    IF response.status \in 200..299
    THEN Some(IF HasKey(response.body, "data") THEN response.body.data
              ELSE response.body)
    ELSE None

\* A variant of InterceptedMessage that reports every failure as a network
\* error.
InterceptedMessageNetworkOnly(request) ==
    IF Present(Intercepted(request.response)) THEN ""
    ELSE "Network error. Please check your internet connection."

\* The response interceptor's error branch: the message of the Error it
\* throws for an answered request, "" where it throws none.
InterceptedMessage(request) ==
    IF request.failure = "setup" THEN "Request failed. Please try again."
    ELSE IF request.failure = "request"
    THEN "Network error. Please check your internet connection."
    ELSE IF Present(Intercepted(request.response)) THEN ""
    ELSE IF HasKey(request.response.body, "message")
    THEN IF request.response.body.message # ""
         THEN request.response.body.message
         ELSE "An error occurred"
    ELSE "An error occurred"

\* The value an answered request resolves to, None where it rejects.
Resolved(request) ==
    IF request.failure = "" THEN Intercepted(request.response) ELSE None

\* A variant of Populated whose reset chooses the priority low.
PopulatedLow(editing) ==
    IF Present(editing)
    THEN [title |-> The(editing).title,
          description |-> The(editing).description,
          priority |-> The(editing).priority]
    ELSE [title |-> <<>>, description |-> <<>>, priority |-> "low"]

\* The form's effect on [initialData, isEditing]: the field values it sets
\* for the editing state editing.
Populated(editing) ==
    IF Present(editing)
    THEN [title |-> The(editing).title,
          description |-> The(editing).description,
          priority |-> The(editing).priority]
    ELSE InitialFormData

\* A variant of ReplaceById that puts the updated task in front of the list.
PrependUpdated(list, taskId, updatedTask) == <<updatedTask>> \o list

\* tasks.map(task => task._id === taskId ? updatedTask : task)
ReplaceById(list, taskId, updatedTask) ==
    [i \in 1..Len(list) |->
        IF list[i].id = taskId THEN updatedTask ELSE list[i]]

\* tasks.filter(task => task._id !== taskId)
RECURSIVE RemoveById(_, _)
RemoveById(list, taskId) ==
    IF list = <<>> THEN <<>>
    ELSE IF Head(list).id = taskId THEN RemoveById(Tail(list), taskId)
    ELSE <<Head(list)>> \o RemoveById(Tail(list), taskId)

\* A variant of Shown under which every setting shows every task.
ShownAlways(task, setting) == TRUE

\* The tasks the list shows under a filter setting.
Shown(task, setting) ==
    IF setting = "active" THEN ~task.completed
    ELSE IF setting = "completed" THEN task.completed
    ELSE TRUE

\* tasks.filter(task => ...) under a filter setting
RECURSIVE Filtered(_, _)
Filtered(list, setting) ==
    IF list = <<>> THEN <<>>
    ELSE IF Shown(Head(list), setting)
    THEN <<Head(list)>> \o Filtered(Tail(list), setting)
    ELSE Filtered(Tail(list), setting)

\* A variant of PriorityOrder that ranks every priority alike.
PriorityOrderFlat(priority) == 2

\* priorityOrder = { high: 3, medium: 2, low: 1 }
PriorityOrder(priority) ==
    IF priority = "high" THEN 3 ELSE IF priority = "medium" THEN 2 ELSE 1

\* a.localeCompare(b) on texts of spaces and letters a: -1, 0 or 1; the
\* space collates before the letter, a text before its extensions.
RECURSIVE LocaleCompare(_, _)
LocaleCompare(a, b) ==
    IF a = <<>> THEN (IF b = <<>> THEN 0 ELSE -1)
    ELSE IF b = <<>> THEN 1
    ELSE IF Head(a) = Head(b) THEN LocaleCompare(Tail(a), Tail(b))
    ELSE IF IsSpace(Head(a)) THEN -1
    ELSE 1

\* The comparator of the sort under a sort setting: negative where a goes
\* first, positive where b goes first.
Compare(a, b, setting) ==
    IF setting = "oldest" THEN a.createdAt - b.createdAt
    ELSE IF setting = "priority"
    THEN PriorityOrder(b.priority) - PriorityOrder(a.priority)
    ELSE IF setting = "alphabetical" THEN LocaleCompare(a.title, b.title)
    ELSE b.createdAt - a.createdAt

\* One step of the sort, which is stable: task goes behind every task of
\* sorted that the comparator does not put after it.
RECURSIVE Inserted(_, _, _)
Inserted(task, sorted, setting) ==
    IF sorted = <<>> THEN <<task>>
    ELSE IF Compare(Head(sorted), task, setting) <= 0
    THEN <<Head(sorted)>> \o Inserted(task, Tail(sorted), setting)
    ELSE <<task>> \o sorted

\* [...filtered].sort(comparator)
RECURSIVE SortedBy(_, _)
SortedBy(list, setting) ==
    IF list = <<>> THEN <<>>
    ELSE Inserted(list[Len(list)],
                  SortedBy(SubSeq(list, 1, Len(list) - 1), setting), setting)

\* filteredAndSortedTasks
FilteredAndSortedTasks(list, filterSetting, sortSetting) ==
    SortedBy(Filtered(list, filterSetting), sortSetting)

\* A variant of UserMessage under which the catch blocks set no message.
UserMessageNone(caller) == ""

\* The message the catch block of a handler of the container sets.
UserMessage(caller) ==
    IF caller = "fetchTasks" THEN "Failed to load tasks. Please try again."
    ELSE IF caller = "handleCreateTask"
    THEN "Failed to create task. Please try again."
    ELSE IF caller = "handleDeleteTask"
    THEN "Failed to delete task. Please try again."
    ELSE "Failed to update task. Please try again."

\* handleInputChange
HandleInputChange(name, value) ==
    /\ ~isSubmitting
    /\ formData' = [formData EXCEPT ![name] = value]
    /\ errors' = IF ~HasKey(errors, name) THEN errors
                 ELSE IF errors[name] # "" THEN [errors EXCEPT ![name] = ""]
                 ELSE errors
    /\ ui' = Call("handleInputChange", None, FALSE)
    /\ UNCHANGED <<isSubmitting, appVars, listVars, inflight>>
    /\ UNCHANGED serverVars

\* handleSubmit, up to the request it awaits: validateForm, then onSubmit
\* (handleCreateTask, or handleUpdateTask of the task being edited), then
\* the API client.
HandleSubmit ==
    /\ ~isSubmitting
    /\ ui' = Call("handleSubmit", Some(DataToSubmit(formData)), FALSE)
    /\ IF ValidateForm(formData) # NoErrors
       THEN /\ errors' = ValidateForm(formData)
            /\ UNCHANGED <<formData, isSubmitting, error, inflight>>
       ELSE IF Present(editingTask)
       THEN /\ Len(inflight) < MaxInFlight
            /\ error' = ""
            /\ errors' = NoErrors
            /\ isSubmitting' = TRUE
            /\ inflight' = Append(inflight,
                  Sent("handleUpdateTask", "PUT", Some(The(editingTask).id),
                       DataToSubmit(formData), tasks, editingTask))
            /\ UNCHANGED formData
       ELSE IF CreateTaskRejects(DataToSubmit(formData))
       THEN /\ error' = UserMessage("handleCreateTask")
            /\ formData' = InitialFormData
            /\ errors' = NoErrors
            /\ UNCHANGED <<isSubmitting, inflight>>
       ELSE /\ Len(inflight) < MaxInFlight
            /\ error' = ""
            /\ errors' = NoErrors
            /\ isSubmitting' = TRUE
            /\ inflight' = Append(inflight,
                  Post("handleCreateTask", DataToSubmit(formData), tasks))
            /\ UNCHANGED formData
    /\ UNCHANGED <<tasks, editingTask, loading, listVars>>
    /\ UNCHANGED serverVars

\* handleSubmit resumed by the outcome of request k: the continuation of
\* handleCreateTask or handleUpdateTask, the form's effect where the
\* editing state changed, then the form's own continuation.
SubmitDone(k) ==
    LET r == inflight[k]
        value == Resolved(r)
    IN  /\ r.caller \in {"handleCreateTask", "handleUpdateTask"}
        /\ r.answered
        /\ tasks' =
              IF ~Present(value) THEN tasks
              ELSE IF r.caller = "handleCreateTask"
              THEN <<The(value)>> \o r.tasks
              ELSE ReplaceById(r.tasks, The(r.id), The(value))
        /\ error' =
              IF Present(value) THEN error ELSE UserMessage(r.caller)
        /\ editingTask' =
              IF Present(value) /\ r.caller = "handleUpdateTask" THEN None
              ELSE editingTask
        /\ formData' =
              IF ~Present(r.editing) THEN InitialFormData
              ELSE IF editingTask' # editingTask THEN Populated(editingTask')
              ELSE formData
        /\ errors' = NoErrors
        /\ isSubmitting' = FALSE
        /\ inflight' = Without(inflight, k)
        /\ ui' = Settled(r.caller, value, InterceptedMessage(r))
        /\ UNCHANGED <<loading, listVars>>
        /\ UNCHANGED serverVars

\* taskService.createTask(taskData), called by any importer, up to the
\* request it awaits.
CreateTask(taskData) ==
    /\ IF CreateTaskRejects(taskData)
       THEN /\ ui' = Thrown("createTask", Some(taskData),
                            "Task title is required")
            /\ inflight' = inflight
       ELSE /\ Len(inflight) < MaxInFlight
            /\ ui' = Call("createTask", Some(taskData), FALSE)
            /\ inflight' = Append(inflight, Post("createTask", taskData, <<>>))
    /\ UNCHANGED <<formVars, appVars, listVars>>
    /\ UNCHANGED serverVars

\* taskService.updateTask(taskId, taskData), called by any importer, up to
\* the request it awaits; taskId is None where the caller passes none.
UpdateTask(taskId, taskData) ==
    /\ IF ~Present(taskId)
       THEN /\ ui' = Thrown("updateTask", Some(taskData),
                            "Task ID is required for update")
            /\ inflight' = inflight
       ELSE /\ Len(inflight) < MaxInFlight
            /\ ui' = Call("updateTask", Some(taskData), FALSE)
            /\ inflight' = Append(inflight,
                  Sent("updateTask", "PUT", taskId, taskData, <<>>, None))
    /\ UNCHANGED <<formVars, appVars, listVars>>
    /\ UNCHANGED serverVars

\* taskService.deleteTask(taskId), likewise.
DeleteTask(taskId) ==
    /\ IF ~Present(taskId)
       THEN /\ ui' = Thrown("deleteTask", None,
                            "Task ID is required for deletion")
            /\ inflight' = inflight
       ELSE /\ Len(inflight) < MaxInFlight
            /\ ui' = Call("deleteTask", None, FALSE)
            /\ inflight' = Append(inflight,
                  Sent("deleteTask", "DELETE", taskId, EmptyBody, <<>>, None))
    /\ UNCHANGED <<formVars, appVars, listVars>>
    /\ UNCHANGED serverVars

\* taskService.getAllTasks(), likewise.
GetAllTasks ==
    /\ Len(inflight) < MaxInFlight
    /\ ui' = Call("getAllTasks", None, FALSE)
    /\ inflight' = Append(inflight,
          Sent("getAllTasks", "GET", None, EmptyBody, <<>>, None))
    /\ UNCHANGED <<formVars, appVars, listVars>>
    /\ UNCHANGED serverVars

\* taskService.getTaskById(taskId), likewise.
GetTaskById(taskId) ==
    /\ Len(inflight) < MaxInFlight
    /\ ui' = Call("getTaskById", None, FALSE)
    /\ inflight' = Append(inflight,
          Sent("getTaskById", "GET", Some(taskId), EmptyBody, <<>>, None))
    /\ UNCHANGED <<formVars, appVars, listVars>>
    /\ UNCHANGED serverVars

\* The functions of the API client.
ApiFunctions ==
    {"createTask", "updateTask", "deleteTask", "getAllTasks", "getTaskById"}

\* A function of the API client, called by any importer, returns or throws
\* on the outcome of its request k.
ApiReturn(k) ==
    /\ inflight[k].caller \in ApiFunctions
    /\ inflight[k].answered
    /\ ui' = Settled(inflight[k].caller, Resolved(inflight[k]),
                     InterceptedMessage(inflight[k]))
    /\ inflight' = Without(inflight, k)
    /\ UNCHANGED <<formVars, appVars, listVars>>
    /\ UNCHANGED serverVars

\* A variant of ToggleData that sends the fields of the form along.
ToggleDataWhole(task) ==
    Body(None, Some(task.title), Some(task.description),
         Some(IF task.completed THEN "false" ELSE "true"), Some(task.priority))

\* The update a click on the checkbox of task sends: { completed }, with
\* completed the negation of the task's.
ToggleData(task) ==
    Body(None, None, None,
         Some(IF task.completed THEN "false" ELSE "true"), None)

\* The checkbox of the i-th task: TaskList.handleToggleComplete, then the
\* container's handleToggleComplete and handleUpdateTask, up to the request
\* awaited.
ToggleComplete(i) ==
    /\ ~loading
    /\ Shown(tasks[i], filter)
    /\ tasks[i].id \notin loadingTasks
    /\ Len(inflight) < MaxInFlight
    /\ loadingTasks' = loadingTasks \cup {tasks[i].id}
    /\ error' = ""
    /\ inflight' = Append(inflight,
          Sent("handleToggleComplete", "PUT", Some(tasks[i].id),
               ToggleData(tasks[i]), tasks, editingTask))
    /\ ui' = Call("handleToggleComplete", Some(tasks[i]), FALSE)
    /\ UNCHANGED <<formVars, tasks, editingTask, loading, filter, sortBy>>
    /\ UNCHANGED serverVars

\* The toggle resumed by the outcome of request k.
ToggleDone(k) ==
    LET r == inflight[k]
        value == Resolved(r)
    IN  /\ r.caller = "handleToggleComplete"
        /\ r.answered
        /\ tasks' = IF Present(value)
                    THEN ReplaceById(r.tasks, The(r.id), The(value))
                    ELSE tasks
        /\ error' = IF Present(value) THEN error ELSE UserMessage(r.caller)
        /\ editingTask' = IF Present(value) THEN None ELSE editingTask
        /\ formData' = IF editingTask' # editingTask
                       THEN Populated(editingTask')
                       ELSE formData
        /\ errors' = IF editingTask' # editingTask THEN NoErrors ELSE errors
        /\ loadingTasks' = IF r.mounted THEN loadingTasks \ {The(r.id)}
                           ELSE loadingTasks
        /\ inflight' = Without(inflight, k)
        /\ ui' = Settled(r.caller, value, InterceptedMessage(r))
        /\ UNCHANGED <<isSubmitting, loading, filter, sortBy>>
        /\ UNCHANGED serverVars

\* The delete button of the i-th task: TaskList.handleDelete, then the
\* container's handleDeleteTask, up to the request awaited; confirmed is
\* the answer to window.confirm.
HandleDelete(i, confirmed) ==
    /\ ~loading
    /\ Shown(tasks[i], filter)
    /\ tasks[i].id \notin loadingTasks
    /\ ui' = Call(IF confirmed THEN "handleDelete" ELSE "handleDelete declined",
                  Some(tasks[i]), FALSE)
    /\ IF confirmed
       THEN /\ Len(inflight) < MaxInFlight
            /\ loadingTasks' = loadingTasks \cup {tasks[i].id}
            /\ error' = ""
            /\ inflight' = Append(inflight,
                  Sent("handleDeleteTask", "DELETE", Some(tasks[i].id),
                       EmptyBody, tasks, editingTask))
       ELSE UNCHANGED <<loadingTasks, error, inflight>>
    /\ UNCHANGED <<formVars, tasks, editingTask, loading, filter, sortBy>>
    /\ UNCHANGED serverVars

\* The delete resumed by the outcome of request k.
DeleteDone(k) ==
    LET r == inflight[k]
        value == Resolved(r)
    IN  /\ r.caller = "handleDeleteTask"
        /\ r.answered
        /\ tasks' = IF Present(value) THEN RemoveById(r.tasks, The(r.id))
                    ELSE tasks
        /\ error' = IF Present(value) THEN error ELSE UserMessage(r.caller)
        /\ loadingTasks' = IF r.mounted THEN loadingTasks \ {The(r.id)}
                           ELSE loadingTasks
        /\ inflight' = Without(inflight, k)
        /\ ui' = Settled(r.caller, value, InterceptedMessage(r))
        /\ UNCHANGED <<formVars, editingTask, loading, filter, sortBy>>
        /\ UNCHANGED serverVars

\* The edit button of the i-th task: handleEditTask, then the form's
\* effect.
HandleEditTask(i) ==
    /\ ~loading
    /\ Shown(tasks[i], filter)
    /\ tasks[i].id \notin loadingTasks
    /\ editingTask' = Some(tasks[i])
    /\ formData' = IF editingTask' # editingTask THEN Populated(editingTask')
                   ELSE formData
    /\ errors' = IF editingTask' # editingTask THEN NoErrors ELSE errors
    /\ ui' = Call("handleEditTask", Some(tasks[i]), FALSE)
    /\ UNCHANGED <<isSubmitting, tasks, error, loading, listVars, inflight>>
    /\ UNCHANGED serverVars

\* The form's cancel button: handleCancel, then handleCancelEdit.
HandleCancel ==
    /\ Present(editingTask)
    /\ ~isSubmitting
    /\ formData' = InitialFormData
    /\ errors' = NoErrors
    /\ editingTask' = None
    /\ ui' = Call("handleCancel", None, FALSE)
    /\ UNCHANGED <<isSubmitting, tasks, error, loading, listVars, inflight>>
    /\ UNCHANGED serverVars

\* totalTasks
TotalTasks(list) == Len(list)

\* completedTasks = tasks.filter(task => task.completed).length
CompletedTasks(list) == Cardinality({i \in 1..Len(list) : list[i].completed})

\* The pairs <<completed, total>>, total up to 201, at which the quotient
\* completed / total * 100 is a whole number and a half while the double the
\* code computes lies just below it (23 / 40 * 100 is 57.49999999999999).
BelowHalf ==
    {<<23, 40>>, <<46, 80>>, <<69, 120>>, <<92, 160>>,
     <<29, 200>>, <<57, 200>>, <<113, 200>>, <<115, 200>>}

\* A variant of RoundedPercentage that cuts the fraction off.
TruncatedPercentage(completed, total) == (100 * completed) \div total

\* Math.round((completed / total) * 100) in double arithmetic, total from 1
\* to 201: the quotient rounded to the nearest whole number, a half upwards,
\* except at the pairs of BelowHalf.
RoundedPercentage(completed, total) ==
    IF <<completed, total>> \in BelowHalf
    THEN (100 * completed) \div total
    ELSE (200 * completed + total) \div (2 * total)

\* completionPercentage
CompletionPercentage(list) ==
    IF TotalTasks(list) = 0 THEN 0
    ELSE RoundedPercentage(CompletedTasks(list), TotalTasks(list))

\* The filter dropdown of the list.
SetFilter(value) ==
    /\ ~loading
    /\ filter' = value
    /\ UNCHANGED <<formVars, appVars, loadingTasks, sortBy, inflight, ui>>
    /\ UNCHANGED serverVars

\* The sort dropdown of the list.
SetSortBy(value) ==
    /\ ~loading
    /\ sortBy' = value
    /\ UNCHANGED <<formVars, appVars, loadingTasks, filter, inflight, ui>>
    /\ UNCHANGED serverVars

\* The requests of list once the list component is unmounted: those of
\* the actions started from it resume in a component that is gone.
Unmounted(list) ==
    [k \in 1..Len(list) |->
        IF list[k].caller \in {"handleToggleComplete", "handleDeleteTask"}
        THEN [list[k] EXCEPT !.mounted = FALSE]
        ELSE list[k]]

\* fetchTasks, up to the request it awaits; while loading the list is not
\* rendered: the list component is unmounted, and a new one with its
\* initial state is mounted afterwards.
FetchTasks ==
    /\ Len(inflight) < MaxInFlight
    /\ loading' = TRUE
    /\ error' = ""
    /\ loadingTasks' = {}
    /\ filter' = "all"
    /\ sortBy' = "newest"
    /\ inflight' = Append(Unmounted(inflight),
          Sent("fetchTasks", "GET", None, EmptyBody, tasks, editingTask))
    /\ ui' = Call("fetchTasks", None, FALSE)
    /\ UNCHANGED <<formVars, tasks, editingTask>>
    /\ UNCHANGED serverVars

\* The Retry button of the error banner.
Retry == error # "" /\ FetchTasks

\* A variant of FetchDone that calls fetchTasks again where the fetch failed.
FetchDoneRetrying(k) ==
    LET r == inflight[k]
        value == Resolved(r)
    IN  /\ r.caller = "fetchTasks"
        /\ r.answered
        /\ tasks' = IF Present(value) THEN The(value) ELSE tasks
        /\ error' = IF Present(value) THEN error ELSE ""
        /\ loading' = ~Present(value)
        /\ inflight' =
              IF Present(value) THEN Without(inflight, k)
              ELSE Append(Without(inflight, k),
                          Sent("fetchTasks", "GET", None, EmptyBody, tasks,
                               editingTask))
        /\ ui' = Settled(r.caller, value, InterceptedMessage(r))
        /\ UNCHANGED <<formVars, editingTask, listVars>>
        /\ UNCHANGED serverVars

\* fetchTasks resumed by the outcome of request k.
FetchDone(k) ==
    LET r == inflight[k]
        value == Resolved(r)
    IN  /\ r.caller = "fetchTasks"
        /\ r.answered
        /\ tasks' = IF Present(value) THEN The(value) ELSE tasks
        /\ error' = IF Present(value) THEN error ELSE UserMessage(r.caller)
        /\ loading' = FALSE
        /\ inflight' = Without(inflight, k)
        /\ ui' = Settled(r.caller, value, InterceptedMessage(r))
        /\ UNCHANGED <<formVars, editingTask, listVars>>
        /\ UNCHANGED serverVars

\* The service handling request k.
Served(k) ==
    IF inflight[k].method = "POST" THEN RouterPost(inflight[k].body, FALSE)
    ELSE IF inflight[k].method = "PUT"
    THEN RouterPut(The(inflight[k].id), inflight[k].body, FALSE)
    ELSE IF inflight[k].method = "DELETE"
    THEN RouterDelete(The(inflight[k].id), FALSE)
    ELSE IF Present(inflight[k].id)
    THEN RouterGetOne(The(inflight[k].id), FALSE)
    ELSE RouterGetAll(FALSE)

\* Request k reaches the service and is answered.
Deliver(k) ==
    /\ ~inflight[k].answered
    /\ Served(k)
    /\ inflight' =
          [inflight EXCEPT ![k].answered = TRUE, ![k].response = res']
    /\ UNCHANGED <<formVars, appVars, listVars, ui>>

\* Request k ends without a response: it was sent and none arrived within
\* the timeout (kind "request"), or it could not be set up (kind "setup").
Fail(k, kind) ==
    /\ ~inflight[k].answered
    /\ inflight' = [inflight EXCEPT ![k].answered = TRUE, ![k].failure = kind]
    /\ UNCHANGED <<formVars, appVars, listVars, ui>>
    /\ UNCHANGED serverVars

(***************************************************************************)
(* The requests a run draws from.                                          *)
(***************************************************************************)
NodeEnvs == {"development", "production"}

RequestIds == (1..MaxIds) \cup MalformedIds

Titles == TextsUpTo(MaxLen)
Descriptions == TextsUpTo(MaxDescLen)
Completeds == {"true", "false", "maybe"}
Priorities == PriorityEnum \cup {"urgent"}

TitleA == <<"a">>

\* Bodies about the collection: a valid one, a blank title, a partial
\* update, an invalid update, and bodies that name an id already issued.
StoreBodies ==
    {Body(None, Some(TitleA), None, None, None),
     Body(None, Some(<<" ">>), None, None, None),
     Body(None, None, None, Some("true"), None),
     Body(None, None, None, None, Some("urgent"))}
    \cup {Body(Some(i), Some(TitleA), None, None, None) :
            i \in {j \in 1..MaxIds : j < nextOid}}

\* Bodies about the fields: every title alone, and each other path alone
\* or beside a valid title.
FieldBodies ==
    {Body(None, t, None, None, None) : t \in Opt(Titles)}
    \cup {Body(None, t, Some(d), None, None) :
            t \in {None, Some(TitleA)}, d \in Descriptions}
    \cup {Body(None, t, None, Some(c), None) :
            t \in {None, Some(TitleA)}, c \in Completeds}
    \cup {Body(None, t, None, None, Some(p)) :
            t \in {None, Some(TitleA)}, p \in Priorities}

\* Bodies about the merge of an update: one path alone, none, or two.
MergeBodies ==
    {EmptyBody,
     Body(None, Some(<<"a", "a">>), None, None, None),
     Body(None, Some(<<" ", "a">>), None, None, None),
     Body(None, None, Some(<<"a">>), None, None),
     Body(None, None, None, Some("true"), None),
     Body(None, None, None, Some("false"), None),
     Body(None, None, None, None, Some("high")),
     Body(None, Some(<<"a", "a">>), None, Some("true"), None)}

\* What is typed into the form, and what createTask and the service are
\* handed besides.
FormTitles == UNION {{[i \in 1..k |-> " "], [i \in 1..k |-> "a"]} : k \in 0..MaxFormLen}
FormDescriptions == {<<" ">>}
FormPriorities == {"high"}
AppTitles == {<<"a", "a", "a">>, <<"a", " ", "a">>}
RaceTitles == {<<"a", " ", "a">>}

TitleBodies ==
    {Body(None, t, None, None, None) :
        t \in {None, Some(TitleA)} \cup {Some([i \in 1..k |-> " "]) : k \in 0..MaxLen}}

Init ==
    /\ db = <<>>
    /\ clock = 0
    /\ nextOid = 1
    /\ req = NoRequest
    /\ res = NoResponse
    /\ deleted = {}
    /\ posted = [i \in 1..MaxIds |-> None]
    /\ handlers = <<>>
    /\ formData = InitialFormData
    /\ errors = NoErrors
    /\ isSubmitting = FALSE
    /\ tasks = <<>>
    /\ error = ""
    /\ editingTask = None
    /\ loading = TRUE
    /\ loadingTasks = {}
    /\ filter = "all"
    /\ sortBy = "newest"
    /\ inflight = <<>>
    /\ ui = Call("none", None, FALSE)

\* The service under every kind of request, over the store bodies.
Next ==
    \/ \E fault \in BOOLEAN : RouterGetAll(fault) /\ UNCHANGED clientVars
    \/ \E id \in RequestIds, fault \in BOOLEAN :
          RouterGetOne(id, fault) /\ UNCHANGED clientVars
    \/ \E body \in StoreBodies, fault \in BOOLEAN :
          RouterPost(body, fault) /\ UNCHANGED clientVars
    \/ \E id \in RequestIds, body \in StoreBodies, fault \in BOOLEAN :
          RouterPut(id, body, fault) /\ UNCHANGED clientVars
    \/ \E id \in RequestIds, fault \in BOOLEAN :
          RouterDelete(id, fault) /\ UNCHANGED clientVars
    \/ RootRoute /\ UNCHANGED clientVars
    \/ NotFoundHandler /\ UNCHANGED clientVars
    \/ \E nodeEnv \in NodeEnvs : ErrorHandler(nodeEnv) /\ UNCHANGED clientVars
    \/ Tick /\ UNCHANGED clientVars

Spec == Init /\ [][Next]_vars

\* The writes of one task at a time, over the field bodies.
NextFields ==
    \/ \E body \in FieldBodies :
          /\ Len(db) < MaxFieldTasks \/ CreateInvalid(body)
          /\ RouterPost(body, FALSE)
          /\ UNCHANGED clientVars
    \/ \E id \in 1..MaxIds, body \in FieldBodies :
          RouterPut(id, body, FALSE) /\ UNCHANGED clientVars
    \/ \E id \in 1..MaxIds : RouterDelete(id, FALSE) /\ UNCHANGED clientVars

SpecFields == Init /\ [][NextFields]_vars

\* Updates of tasks created alike, over the merge bodies.
NextMerge ==
    \/ /\ RouterPost(Body(None, Some(TitleA), None, None, None), FALSE)
       /\ UNCHANGED clientVars
    \/ \E id \in 1..MaxIds, body \in MergeBodies :
          RouterPut(id, body, FALSE) /\ UNCHANGED clientVars
    \/ Tick /\ UNCHANGED clientVars

SpecMerge == Init /\ [][NextMerge]_vars

\* The form and createTask in front of the service, and the service
\* reached by any other sender, over the title bodies.
NextForm ==
    \/ \E value \in FormTitles : HandleInputChange("title", value)
    \/ \E value \in FormDescriptions : HandleInputChange("description", value)
    \/ \E value \in FormPriorities : HandleInputChange("priority", value)
    \/ HandleSubmit /\ Len(inflight') <= MaxSerial
    \/ \E k \in 1..Len(inflight) : SubmitDone(k)
    \/ \E taskData \in TitleBodies :
          CreateTask(taskData) /\ Len(inflight') <= MaxSerial
    \/ \E k \in 1..Len(inflight) : ApiReturn(k)
    \/ \E k \in 1..Len(inflight) :
          /\ Len(db) < MaxFieldTasks \/ CreateInvalid(inflight[k].body)
          /\ Deliver(k)
    \/ \E body \in TitleBodies :
          /\ Len(db) < MaxFieldTasks \/ CreateInvalid(body)
          /\ RouterPost(body, FALSE)
          /\ UNCHANGED clientVars

SpecForm == Init /\ [][NextForm]_vars

\* The state once the container has mounted: its effect has called
\* fetchTasks.
InitApp ==
    /\ db = <<>>
    /\ clock = 0
    /\ nextOid = 1
    /\ req = NoRequest
    /\ res = NoResponse
    /\ deleted = {}
    /\ posted = [i \in 1..MaxIds |-> None]
    /\ handlers = <<>>
    /\ formData = InitialFormData
    /\ errors = NoErrors
    /\ isSubmitting = FALSE
    /\ tasks = <<>>
    /\ error = ""
    /\ editingTask = None
    /\ loading = TRUE
    /\ loadingTasks = {}
    /\ filter = "all"
    /\ sortBy = "newest"
    /\ inflight = <<Sent("fetchTasks", "GET", None, EmptyBody, <<>>, None)>>
    /\ ui = Call("fetchTasks", None, FALSE)

\* One client in front of the service: the container, the form and the
\* list, their requests answered, lost or failing in any order.
NextApp ==
    \/ \E value \in AppTitles : HandleInputChange("title", value)
    \/ HandleSubmit /\ Len(inflight') <= MaxSerial
    \/ \E k \in 1..Len(inflight) : SubmitDone(k)
    \/ \E i \in 1..Len(tasks) : ToggleComplete(i) /\ Len(inflight') <= MaxSerial
    \/ \E k \in 1..Len(inflight) : ToggleDone(k)
    \/ \E i \in 1..Len(tasks), confirmed \in BOOLEAN :
          HandleDelete(i, confirmed) /\ Len(inflight') <= MaxSerial
    \/ \E k \in 1..Len(inflight) : DeleteDone(k)
    \/ \E i \in 1..Len(tasks) : HandleEditTask(i)
    \/ HandleCancel
    \/ Retry /\ Len(inflight') <= MaxSerial
    \/ \E k \in 1..Len(inflight) : FetchDone(k)
    \/ \E k \in 1..Len(inflight) : Deliver(k)
    \/ \E k \in 1..Len(inflight), kind \in {"request", "setup"} : Fail(k, kind)

SpecApp == InitApp /\ [][NextApp]_vars

\* The tasks the list was loaded with.
SeedTasks ==
    [i \in 1..MaxIds |->
        NewDoc(Body(None, Some(<<"a", "a", "a">>), Some(<<>>), None, None), i, 0)]

\* The state once the list has been loaded with the stored tasks.
\* The state once the first fetch has brought list, the tasks stored.
Mounted(list) ==
    /\ db = list
    /\ clock = 0
    /\ nextOid = MaxIds + 1
    /\ req = Request("GET /api/tasks", None, None, FALSE)
    /\ res = GetAllResponse(Returns(list, list))
    /\ deleted = {}
    /\ posted = [i \in 1..MaxIds |-> None]
    /\ handlers = <<>>
    /\ formData = InitialFormData
    /\ errors = NoErrors
    /\ isSubmitting = FALSE
    /\ tasks = list
    /\ error = ""
    /\ editingTask = None
    /\ loading = FALSE
    /\ loadingTasks = {}
    /\ filter = "all"
    /\ sortBy = "newest"
    /\ inflight = <<>>
    /\ ui = Settled("fetchTasks", Some(list), "")

InitRace == Mounted(SeedTasks)

\* One client whose toggles and deletes overlap: a second action
\* is started while the request of the first is awaited; every request is
\* answered.
NextRace ==
    \/ \E i \in 1..Len(tasks) : ToggleComplete(i)
    \/ \E k \in 1..Len(inflight) : ToggleDone(k)
    \/ \E i \in 1..Len(tasks) : HandleDelete(i, TRUE)
    \/ \E k \in 1..Len(inflight) : DeleteDone(k)
    \/ \E k \in 1..Len(inflight) : Deliver(k)

SpecRace == InitRace /\ [][NextRace]_vars

\* One client that edits a task in the form and toggles it while the
\* update is awaited, or the other way round; every request is answered.
InitEdit == Mounted(SubSeq(SeedTasks, 1, MaxFieldTasks))

NextEdit ==
    \/ \E value \in RaceTitles : HandleInputChange("title", value)
    \/ Present(editingTask) /\ HandleSubmit
    \/ \E k \in 1..Len(inflight) : SubmitDone(k)
    \/ \E i \in 1..Len(tasks) : ToggleComplete(i)
    \/ \E k \in 1..Len(inflight) : ToggleDone(k)
    \/ \E i \in 1..Len(tasks) : HandleEditTask(i)
    \/ \E k \in 1..Len(inflight) : Deliver(k)

SpecEdit == InitEdit /\ [][NextEdit]_vars

\* The list component rendered with any list of tasks, in any order, and
\* its two dropdowns.
FilterSettings == {"all", "active", "completed"}
SortSettings == {"newest", "oldest", "priority", "alphabetical"}
ListTitles == {<<"a">>, <<"a", " ", "a">>}

TaskLists ==
    UNION {[1..n -> [title : ListTitles, completed : BOOLEAN,
                     priority : PriorityEnum, createdAt : 0..MaxClock]]
              : n \in 0..MaxListLen}

\* The task at position i of a list drawn from TaskLists.
ListedTask(drawn, i) ==
    [id |-> i, title |-> drawn[i].title, description |-> <<>>,
     completed |-> drawn[i].completed, priority |-> drawn[i].priority,
     createdAt |-> drawn[i].createdAt, updatedAt |-> drawn[i].createdAt]

\* The state in which the components are rendered with list; the service
\* takes no part.
Rendered(list) ==
    /\ db = <<>>
    /\ clock = 0
    /\ nextOid = 1
    /\ req = NoRequest
    /\ res = NoResponse
    /\ deleted = {}
    /\ posted = [i \in 1..MaxIds |-> None]
    /\ handlers = <<>>
    /\ formData = InitialFormData
    /\ errors = NoErrors
    /\ isSubmitting = FALSE
    /\ tasks = list
    /\ error = ""
    /\ editingTask = None
    /\ loading = FALSE
    /\ loadingTasks = {}
    /\ filter = "all"
    /\ sortBy = "newest"
    /\ inflight = <<>>
    /\ ui = Settled("fetchTasks", Some(list), "")

InitList ==
    \E drawn \in TaskLists :
        Rendered([i \in 1..Len(drawn) |-> ListedTask(drawn, i)])

NextList ==
    \/ \E value \in FilterSettings : SetFilter(value)
    \/ \E value \in SortSettings : SetSortBy(value)

SpecList == InitList /\ [][NextList]_vars

\* The statistics rendered with a list of total tasks of which the first
\* completed ones are completed, for every total and every count.
CountedTask(i, completed) ==
    [id |-> i, title |-> <<"a">>, description |-> <<>>,
     completed |-> i <= completed, priority |-> DefaultPriority,
     createdAt |-> 0, updatedAt |-> 0]

InitStats ==
    \E total \in 0..MaxTotal : \E completed \in 0..total :
        Rendered([i \in 1..total |-> CountedTask(i, completed)])

NextStats == \E value \in FilterSettings : SetFilter(value)

SpecStats == InitStats /\ [][NextStats]_vars

\* The form over a stored task whose title and description lie at the
\* limits the form tests: the service sets no limit of its own, and the
\* edit button brings the stored texts into the form.
Repeated(c, n) == [i \in 1..n |-> c]

LimitTitles ==
    {Repeated("a", n) :
        n \in {TitleMinLength - 1, TitleMaxLength, TitleMaxLength + 1}}

LimitDescriptions ==
    {Repeated("a", n) : n \in {DescriptionMaxLength, DescriptionMaxLength + 1}}

InitLimits ==
    \E t \in LimitTitles, d \in LimitDescriptions :
        Mounted(<<NewDoc(Body(None, Some(t), Some(d), None, None), 1, 0)>>)

NextLimits ==
    \/ \E value \in FormTitles : HandleInputChange("title", value)
    \/ \E value \in FormDescriptions : HandleInputChange("description", value)
    \/ HandleSubmit /\ Len(inflight') <= MaxSerial
    \/ \E k \in 1..Len(inflight) : SubmitDone(k)
    \/ \E i \in 1..Len(tasks) : HandleEditTask(i)
    \/ HandleCancel
    \/ \E k \in 1..Len(inflight) : Len(db) < MaxTasks /\ Deliver(k)

SpecLimits == InitLimits /\ [][NextLimits]_vars

\* The functions of the API client called by any importer, one call at a
\* time, over a service that answers, a network that loses requests and
\* requests that cannot be set up.
ClientBodies ==
    {Body(None, Some(TitleA), None, None, None),
     Body(None, Some(TitleA), None, None, Some("urgent")),
     Body(None, Some(<<" ">>), None, None, None)}

ClientIds == Opt({1} \cup MalformedIds)

NextClient ==
    \/ \E taskData \in ClientBodies :
          CreateTask(taskData) /\ Len(inflight') <= MaxSerial
    \/ \E taskId \in ClientIds, taskData \in ClientBodies :
          UpdateTask(taskId, taskData) /\ Len(inflight') <= MaxSerial
    \/ \E taskId \in ClientIds :
          DeleteTask(taskId) /\ Len(inflight') <= MaxSerial
    \/ GetAllTasks /\ Len(inflight') <= MaxSerial
    \/ \E taskId \in {1} \cup MalformedIds :
          GetTaskById(taskId) /\ Len(inflight') <= MaxSerial
    \/ \E k \in 1..Len(inflight) :
          /\ inflight[k].method = "POST" =>
                Len(db) < MaxFieldTasks \/ CreateInvalid(inflight[k].body)
          /\ Deliver(k)
    \/ \E k \in 1..Len(inflight), kind \in {"request", "setup"} : Fail(k, kind)
    \/ \E k \in 1..Len(inflight) : ApiReturn(k)

SpecClient == Init /\ [][NextClient]_vars

(***************************************************************************)
(* Properties of the routes.                                               *)
(***************************************************************************)
WellFormed(id) == id \in 1..MaxIds

\* The step is this route's handler answering the request that req' holds.
GetAllStep == req'.route = "GET /api/tasks" /\ RouterGetAll(req'.fault)

GetOneStep ==
    req'.route = "GET /api/tasks/:id" /\ RouterGetOne(The(req'.id), req'.fault)

PostStep ==
    req'.route = "POST /api/tasks" /\ RouterPost(The(req'.body), req'.fault)

PutStep ==
    /\ req'.route = "PUT /api/tasks/:id"
    /\ RouterPut(The(req'.id), The(req'.body), req'.fault)

DeleteStep ==
    /\ req'.route = "DELETE /api/tasks/:id"
    /\ RouterDelete(The(req'.id), req'.fault)

\* A body an update refuses: a title that is blank, a priority outside the
\* enum, a completed that is no boolean.
BodyFailsValidation(body) ==
    \/ IF Present(body.title)
       THEN \A i \in 1..Len(The(body.title)) : The(body.title)[i] = " "
       ELSE FALSE
    \/ IF Present(body.priority)
       THEN The(body.priority) \notin {"low", "medium", "high"}
       ELSE FALSE
    \/ IF Present(body.completed)
       THEN The(body.completed) \notin {"true", "false"}
       ELSE FALSE

\* C1: GET /api/tasks answers 200 with exactly the stored tasks, each
\* once, ordered by createdAt descending, whatever requests created,
\* updated or deleted tasks before it (the persistence call completing).
C1_ListNewestFirst ==
    (req.route = "GET /api/tasks" /\ ~req.fault) =>
        /\ res.status = 200
        /\ res.body.count = Len(db)
        /\ res.body.data \in Orderings(db)
        /\ \A i \in 1..(Len(res.body.data) - 1) :
              res.body.data[i].createdAt >= res.body.data[i + 1].createdAt

\* C1 witness: the list is answered for two tasks whose natural order is
\* oldest first, after a delete and an update.
C1_Witness ==
    /\ req.route = "GET /api/tasks"
    /\ res.status = 200
    /\ Len(db) = 2
    /\ db[1].createdAt < db[2].createdAt
    /\ deleted # {}
    /\ \E i \in 1..2 : db[i].updatedAt > db[i].createdAt

\* C2 as stated: every PUT and every DELETE on a well-formed id that
\* matches no stored task answers 404 with success:false and leaves the
\* collection as it was.
C2_MissingIdAlways404 ==
    [][((PutStep \/ DeleteStep) /\ ~req'.fault /\ WellFormed(The(req'.id))
          /\ The(req'.id) \notin Ids(db)) =>
            res'.status = 404 /\ ~res'.body.success /\ db' = db]_vars

\* C2 amended: on a well-formed id that matches no stored task, a DELETE,
\* and a PUT whose body passes validation, answer 404 with success:false;
\* a PUT whose body fails validation (a blank title, a priority outside
\* the enum, a completed that is no boolean) answers 400 with
\* success:false; in every case the collection is left as it was.
C2_MissingIdLeavesCollection ==
    [][((PutStep \/ DeleteStep) /\ ~req'.fault /\ WellFormed(The(req'.id))
          /\ The(req'.id) \notin Ids(db)) =>
            /\ res'.status =
                  IF PutStep /\ BodyFailsValidation(The(req'.body))
                  THEN 400
                  ELSE 404
            /\ ~res'.body.success
            /\ db' = db]_vars

\* C2 witness: a PUT on a well-formed id that matches none of the stored
\* tasks was answered 404.
C2_Witness ==
    /\ req.route = "PUT /api/tasks/:id"
    /\ \E id \in 1..MaxIds : req.id = Some(id) /\ id \notin Ids(db)
    /\ ~req.fault
    /\ res.status = 404
    /\ Len(db) >= 1

\* C6: a GET /api/tasks/:id on the id a POST returned, with no successful
\* PUT or DELETE of that id in between, answers 200 with the record the
\* POST returned: same id, title, description, completed, priority and
\* timestamps (the persistence call completing).
C6_PostThenGetRoundTrip ==
    \A id \in 1..MaxIds :
        (req.route = "GET /api/tasks/:id" /\ req.id = Some(id) /\ ~req.fault
            /\ Present(posted[id])) =>
           /\ res.status = 200
           /\ res.body.success
           /\ res.body.data = The(posted[id])

\* C6 witness: the record a POST returned is read back at a later instant,
\* with another task stored beside it.
C6_Witness ==
    /\ req.route = "GET /api/tasks/:id"
    /\ res.status = 200
    /\ Len(db) = 2
    /\ Present(posted[The(req.id)])
    /\ clock > res.body.data.createdAt

\* C7 as stated: once a DELETE has answered 200 for an id, every later GET,
\* PUT (with a body that passes validation) or DELETE on that id answers
\* 404, and no later list contains a task with that id.
C7_DeletionPermanent ==
    [][/\ (/\ GetOneStep \/ PutStep \/ DeleteStep
           /\ ~req'.fault
           /\ The(req'.id) \in deleted
           /\ (PutStep => ~BodyFailsValidation(The(req'.body)))) =>
             res'.status = 404
       /\ (GetAllStep /\ ~req'.fault) =>
             \A i \in 1..Len(res'.body.data) :
                res'.body.data[i].id \notin deleted]_vars

\* C9 as stated: every response body has a boolean success, and every
\* failure body has a message and an error detail string.
C9_EveryBodyEnvelope ==
    req.route # "none" =>
        /\ HasKey(res.body, "success")
        /\ res.body.success \in BOOLEAN
        /\ ~res.body.success =>
              /\ HasKey(res.body, "message")
              /\ HasKey(res.body, "error")
              /\ res.body.error.type = "string"

\* C9 amended: every response body of the five task routes, of the
\* unmatched-route responder and of the global error responder is a
\* mapping with a boolean success, and every failure body carries a
\* message; the root endpoint's body has no success field.  The error
\* detail string is carried by the failure bodies the task routes send for
\* a thrown error (400, and 500 for the list) and by the global error
\* responder in development mode; the 404 bodies carry no error field and
\* the global error responder outside development carries an empty mapping.
C9_EnvelopeByResponder ==
    [][/\ req'.route \in TaskRoutes \cup {"*", "error"} =>
             /\ HasKey(res'.body, "success")
             /\ res'.body.success \in BOOLEAN
             /\ ~res'.body.success => HasKey(res'.body, "message")
       /\ req'.route = "GET /" => ~HasKey(res'.body, "success")
       /\ req'.route \in TaskRoutes =>
             IF res'.status \in {400, 500}
             THEN HasKey(res'.body, "error") /\ res'.body.error.type = "string"
             ELSE ~HasKey(res'.body, "error")
       /\ req'.route = "*" => res'.status = 404 /\ ~HasKey(res'.body, "error")
       /\ \A nodeEnv \in NodeEnvs :
             (req'.route = "error" /\ ErrorHandler(nodeEnv)) =>
                /\ res'.status = 500
                /\ HasKey(res'.body, "error")
                /\ res'.body.error.type =
                      IF nodeEnv = "development" THEN "string" ELSE "object"]_vars

\* C9 witness: a task route answered a failure without an error detail.
C9_Witness ==
    /\ req.route \in TaskRoutes
    /\ res.status = 404
    /\ ~res.body.success
    /\ HasKey(res.body, "message")
    /\ ~HasKey(res.body, "error")

\* C10: GET /api/tasks/:id answers 400, never 404, for an id that is not
\* a well-formed key, and answers 404 with message "Task not found", never
\* 400, for a well-formed id that matches no stored task (the persistence
\* call completing).
C10_MalformedVersusMissing ==
    req.route = "GET /api/tasks/:id" =>
        /\ ~WellFormed(The(req.id)) => res.status = 400
        /\ (WellFormed(The(req.id)) /\ ~req.fault
               /\ \A i \in 1..Len(db) : db[i].id # The(req.id)) =>
              res.status = 404 /\ res.body.message = "Task not found"

\* C10 witness: with tasks stored, a well-formed id that matches none of
\* them was answered 404.
C10_Witness ==
    /\ req.route = "GET /api/tasks/:id"
    /\ WellFormed(The(req.id))
    /\ Len(db) >= 1
    /\ \A i \in 1..Len(db) : db[i].id # The(req.id)
    /\ res.status = 404

\* A text that holds nothing but whitespace (the empty text included).
Blank(s) == \A i \in 1..Len(s) : s[i] = " "

\* t is s without its leading and trailing whitespace.
IsTrimOf(t, s) ==
    /\ t = <<>> \/ (t[1] # " " /\ t[Len(t)] # " ")
    /\ \E i \in 1..(Len(s) + 1), j \in 0..Len(s) :
          /\ t = SubSeq(s, i, j)
          /\ \A k \in 1..(i - 1) : s[k] = " "
          /\ \A k \in (j + 1)..Len(s) : s[k] = " "

TitleWouldBeBlank(body) ==
    IF Present(body.title) THEN Blank(The(body.title)) ELSE FALSE

PriorityOutsideEnum(body) ==
    IF Present(body.priority)
    THEN The(body.priority) \notin {"low", "medium", "high"}
    ELSE FALSE

C5_CreateDefaults ==
    (req.route = "POST /api/tasks" /\ res.status = 201) =>
        /\ Lookup(db, res.body.data.id) = {res.body.data}
        /\ ~Present(The(req.body).completed) => res.body.data.completed = FALSE
        /\ ~Present(The(req.body).priority) => res.body.data.priority = "medium"

\* C5 witness: a POST whose body omits both completed and priority was
\* answered 201.
C5_Witness ==
    /\ req.route = "POST /api/tasks"
    /\ res.status = 201
    /\ ~Present(The(req.body).completed)
    /\ ~Present(The(req.body).priority)
    /\ db # <<>>

\* C8: a successful PUT answers 200 with the record as stored after the
\* update, in which each field the body carries has the body's value (a
\* text without its surrounding whitespace), and the task's id, its
\* createdAt and each of title, description, completed and priority the
\* body does not carry keep their prior values; every other task of the
\* collection is unchanged.
C8_UpdateMergesSentFields ==
    [][(PutStep /\ res'.status = 200) =>
          LET body == The(req'.body)
              i == CHOOSE k \in 1..Len(db) : db[k].id = The(req'.id)
              old == db[i]
              new == db'[i]
          IN  /\ res'.body.data = new
              /\ Len(db') = Len(db)
              /\ \A j \in 1..Len(db) : j # i => db'[j] = db[j]
              /\ new.id = old.id
              /\ new.createdAt = old.createdAt
              /\ IF Present(body.title)
                 THEN IsTrimOf(new.title, The(body.title))
                 ELSE new.title = old.title
              /\ IF Present(body.description)
                 THEN IsTrimOf(new.description, The(body.description))
                 ELSE new.description = old.description
              /\ IF Present(body.completed)
                 THEN new.completed = (The(body.completed) = "true")
                 ELSE new.completed = old.completed
              /\ IF Present(body.priority)
                 THEN new.priority = The(body.priority)
                 ELSE new.priority = old.priority]_vars

\* C8 witness: with two tasks stored, a PUT carrying completed alone was
\* answered 200 for a task whose title and priority had been updated
\* before.
C8_Witness ==
    /\ req.route = "PUT /api/tasks/:id"
    /\ res.status = 200
    /\ Len(db) = 2
    /\ The(req.body) = Body(None, None, None, Some("true"), None)
    /\ res.body.data.title = <<"a", "a">>
    /\ res.body.data.priority = "high"
    /\ res.body.data.completed
    /\ res.body.data.updatedAt > res.body.data.createdAt

\* The step is the client call that ui' holds.
SubmitStep == ui'.event = "handleSubmit" /\ HandleSubmit

CreateTaskStep ==
    /\ ui'.event = "createTask"
    /\ Present(ui'.taskData)
    /\ CreateTask(The(ui'.taskData))

\* C4: a create whose title is empty or whitespace-only never persists:
\* the service's POST answers 400 and leaves the collection as it was; a
\* form submit with such a title sets the title message and issues no
\* request; createTask handed such a title throws and issues no request;
\* no request the client has issued carries such a title.
C4_BlankTitleNeverCreated ==
    [][/\ (PostStep /\ TitleWouldBeBlank(The(req'.body))) =>
             res'.status = 400 /\ db' = db
       /\ (SubmitStep /\ Blank(formData.title)) =>
             /\ inflight' = inflight
             /\ errors'.title = "Task title is required"
             /\ db' = db
       /\ (CreateTaskStep /\ TitleWouldBeBlank(The(ui'.taskData))) =>
             /\ inflight' = inflight
             /\ ui'.threw
             /\ db' = db
       /\ \A k \in 1..Len(inflight') :
             ~TitleWouldBeBlank(inflight'[k].body)]_vars

\* C4 witness: with a task stored, the service refused a POST with a blank
\* title, and a submit of a title of three spaces was stopped by
\* validateForm, no request issued.
C4_Witness ==
    /\ req.route = "POST /api/tasks"
    /\ TitleWouldBeBlank(The(req.body))
    /\ res.status = 400
    /\ Len(db) = 1
    /\ ui.event = "handleSubmit"
    /\ Blank(formData.title)
    /\ Len(formData.title) >= TitleMinLength
    /\ errors.title = "Task title is required"
    /\ inflight = <<>>
    /\ error = ""

\* C11 as stated: no two stored tasks share an id; the id of a task a POST
\* creates is the key the persistence layer generates, never one the
\* request body carries; no POST or PUT changes the id of a stored task.
C11_IdsFromPersistenceLayer ==
    [][/\ \A i, j \in 1..Len(db') : db'[i].id = db'[j].id => i = j
       /\ (PostStep /\ res'.status = 201) =>
             /\ res'.body.data.id = nextOid
             /\ ~Present(The(req'.body).id)
                   \/ res'.body.data.id # The(The(req'.body).id)
       /\ (PostStep \/ PutStep) =>
             \A i \in 1..Len(db) : db'[i].id = db[i].id]_vars

(***************************************************************************)
(* The client's task list.                                                 *)
(***************************************************************************)
\* Steps of the container that end a create, an update (a toggle included)
\* or a delete of request k with success.
CreateSucceeds(k) ==
    /\ inflight[k].caller = "handleCreateTask"
    /\ Present(Resolved(inflight[k]))
    /\ SubmitDone(k)

UpdateSucceeds(k) ==
    /\ inflight[k].caller \in {"handleUpdateTask", "handleToggleComplete"}
    /\ Present(Resolved(inflight[k]))
    /\ SubmitDone(k) \/ ToggleDone(k)

DeleteSucceeds(k) ==
    /\ inflight[k].caller = "handleDeleteTask"
    /\ Present(Resolved(inflight[k]))
    /\ DeleteDone(k)

\* The requests for the whole list among the requests awaited.
Refetches(requests) ==
    {j \in 1..Len(requests) : requests[j].caller = "fetchTasks"}

\* C12 as stated: a create, update or delete that succeeds changes the list
\* in memory by its patch alone (the created task put first; the entry of
\* the updated id replaced by the server's record, every other entry and the
\* order kept; the entry of the deleted id removed) and issues no request
\* for the whole list.
C12_MinimalPatch ==
    [][\A k \in 1..Len(inflight) :
          LET r == inflight[k]
              value == The(Resolved(r))
          IN  /\ CreateSucceeds(k) => tasks' = <<value>> \o tasks
              /\ UpdateSucceeds(k) =>
                    tasks' = ReplaceById(tasks, The(r.id), value)
              /\ DeleteSucceeds(k) => tasks' = RemoveById(tasks, The(r.id))
              /\ (CreateSucceeds(k) \/ UpdateSucceeds(k) \/ DeleteSucceeds(k))
                    => Cardinality(Refetches(inflight'))
                          = Cardinality(Refetches(inflight))]_vars

\* A step of the container that ends the create, update, toggle or delete
\* of request k with failure.
ActionFails(k) ==
    /\ inflight[k].caller \in {"handleCreateTask", "handleUpdateTask",
                               "handleToggleComplete", "handleDeleteTask"}
    /\ ~Present(Resolved(inflight[k]))
    /\ SubmitDone(k) \/ ToggleDone(k) \/ DeleteDone(k)

\* C13: a create, update, delete or toggle that fails leaves an error
\* message that is not empty and touches neither the list in memory nor the
\* task being edited.
C13_FailureLeavesState ==
    [][\A k \in 1..Len(inflight) :
          ActionFails(k) =>
             /\ error' # ""
             /\ tasks' = tasks
             /\ editingTask' = editingTask]_vars

\* An update submitted from the form has failed: the message is set, the
\* list is not empty and the task is still being edited.
C13_Witness ==
    /\ ui.event = "handleUpdateTask"
    /\ ui.message # ""
    /\ ~Present(ui.value)
    /\ error # ""
    /\ tasks # <<>>
    /\ Present(editingTask)

(***************************************************************************)
(* Toggling completion.                                                    *)
(***************************************************************************)
\* The fields of a task the form edits.
FormFields(task) ==
    [title |-> task.title, description |-> task.description,
     priority |-> task.priority]

\* A step that starts the toggle of the i-th task of the list.
ToggleStep(i) == ui'.event = "handleToggleComplete" /\ ToggleComplete(i)

\* A step in which the service answers the toggle that is request k.
ToggleServed(k) ==
    inflight[k].caller = "handleToggleComplete" /\ Deliver(k)

\* A step that resumes the toggle that is request k with success.
ToggleSucceeds(k) ==
    /\ inflight[k].caller = "handleToggleComplete"
    /\ Present(Resolved(inflight[k]))
    /\ ToggleDone(k)

\* The body a toggle of the i-th task sends is exactly { completed }, with
\* the negation of the task's completed.
ToggleSendsNegation(i) ==
    LET sent == inflight'[Len(inflight')]
    IN  /\ sent.method = "PUT"
        /\ sent.id = Some(tasks[i].id)
        /\ BodyKeys(sent.body) = {"completed"}
        /\ CastBoolean(The(sent.body.completed)) = Some(~tasks[i].completed)

Range(list) == {list[i] : i \in 1..Len(list)}

\* The list the component shows.
Visible == FilteredAndSortedTasks(tasks, filter, sortBy)

\* C15: under any sort setting, the lists shown under the filters 'active'
\* and 'completed' have no task in common and between them hold exactly the
\* tasks shown under 'all', each once.
C15_FiltersPartition ==
    LET all == FilteredAndSortedTasks(tasks, "all", sortBy)
        active == FilteredAndSortedTasks(tasks, "active", sortBy)
        completed == FilteredAndSortedTasks(tasks, "completed", sortBy)
    IN  /\ Range(active) \cap Range(completed) = {}
        /\ Range(active) \cup Range(completed) = Range(all)
        /\ Len(active) + Len(completed) = Len(all)
        /\ Cardinality(Range(active)) = Len(active)
        /\ Cardinality(Range(completed)) = Len(completed)
        /\ Range(all) = Range(tasks)
        /\ Len(all) = Len(tasks)

\* The filter 'active' is selected over a list with a completed and an
\* active task, and hides the completed one.
C15_Witness ==
    /\ filter = "active"
    /\ \E i, j \in 1..Len(tasks) : tasks[i].completed /\ ~tasks[j].completed
    /\ Len(Visible) < Len(tasks)
    /\ Visible # <<>>

\* The position of the task with id in list.
PositionOf(list, id) == CHOOSE i \in 1..Len(list) : list[i].id = id

\* C16: sorted by priority, the list shown is a permutation of the filtered
\* list in which no task follows one of lower priority (high, then medium,
\* then low), and tasks of equal priority stand in the order they have in
\* the filtered list.
C16_PrioritySort ==
    LET filtered == Filtered(tasks, filter)
        sorted == FilteredAndSortedTasks(tasks, filter, "priority")
    IN  /\ Len(sorted) = Len(filtered)
        /\ Range(sorted) = Range(filtered)
        /\ \A p, q \in 1..Len(sorted) :
              p < q =>
                 /\ ~(sorted[p].priority = "medium" /\ sorted[q].priority = "high")
                 /\ ~(sorted[p].priority = "low" /\ sorted[q].priority = "high")
                 /\ ~(sorted[p].priority = "low" /\ sorted[q].priority = "medium")
                 /\ sorted[p].priority = sorted[q].priority =>
                       PositionOf(filtered, sorted[p].id)
                          < PositionOf(filtered, sorted[q].id)
        /\ sortBy = "priority" => Visible = sorted

\* The sort 'priority' is selected over a list that holds a low task before
\* two high ones: the list shown starts with the two high tasks, in their
\* order.
C16_Witness ==
    /\ sortBy = "priority"
    /\ Len(tasks) = MaxListLen
    /\ tasks[1].priority = "low"
    /\ \A i \in 2..Len(tasks) : tasks[i].priority = "high"
    /\ filter = "all"
    /\ Visible[1] = tasks[2]
    /\ Visible[Len(tasks)] = tasks[1]

(***************************************************************************)
(* The statistics.                                                         *)
(***************************************************************************)
\* The percentage the statistics show, and the counts it is computed of.
Percentage == CompletionPercentage(tasks)
Completed == CompletedTasks(tasks)
Total == TotalTasks(tasks)

\* The percentage is 0 of no tasks, 33 of one task in three, a whole number
\* from 0 to 100 and at most a half away from completed / total * 100.
PercentageRounds ==
    /\ Total = 0 => Percentage = 0
    /\ (Total = 3 /\ Completed = 1) => Percentage = 33
    /\ Percentage \in 0..100
    /\ Total > 0 =>
          /\ 200 * Completed <= (2 * Percentage + 1) * Total
          /\ 200 * Completed >= (2 * Percentage - 1) * Total

\* C17 as stated: the percentage is 0 of no tasks and completed / total *
\* 100 rounded otherwise, a whole number from 0 to 100, and it is 100
\* exactly when there is a task and every task is completed.
C17_HundredIffAllCompleted ==
    /\ PercentageRounds
    /\ Percentage = 100 <=> (Total > 0 /\ Completed = Total)

\* C17: the percentage is 0 of no tasks and completed / total * 100 rounded
\* otherwise, a whole number from 0 to 100; it is 100 exactly when there is
\* a task and at least 99.5 in a hundred are completed, and it is 100
\* whenever there is a task and every task is completed.
C17_HundredIffNearlyAll ==
    /\ PercentageRounds
    /\ Percentage = 100 <=> (Total > 0 /\ 200 * Completed >= 199 * Total)
    /\ (Total > 0 /\ Completed = Total) => Percentage = 100

\* The statistics of MaxTotal tasks of which one is not completed: the
\* percentage shown is 100.
C17_Witness ==
    /\ Total = MaxTotal
    /\ Completed = Total - 1
    /\ Percentage = 100
    /\ filter = "active"

(***************************************************************************)
(* The form.                                                               *)
(***************************************************************************)
\* The form's content passes the limits: the title, trimmed, has from
\* TitleMinLength to TitleMaxLength characters and the description at most
\* DescriptionMaxLength.
WithinLimits(data) ==
    /\ Len(Trim(data.title)) >= TitleMinLength
    /\ Len(Trim(data.title)) <= TitleMaxLength
    /\ Len(data.description) <= DescriptionMaxLength

\* C18: a submit of the form calls the submit handler, which sends one
\* create or update request, only with content within the limits, and the
\* data passed has title and description trimmed and the priority chosen;
\* any other content sets a field error and no request is sent.
C18_SubmitOnlyWithinLimits ==
    [][SubmitStep =>
          IF WithinLimits(formData)
          THEN /\ Len(inflight') = Len(inflight) + 1
               /\ LET sent == inflight'[Len(inflight')]
                  IN  /\ sent.caller = IF Present(editingTask)
                                       THEN "handleUpdateTask"
                                       ELSE "handleCreateTask"
                      /\ BodyKeys(sent.body)
                            = {"title", "description", "priority"}
                      /\ IsTrimOf(The(sent.body.title), formData.title)
                      /\ IsTrimOf(The(sent.body.description),
                                  formData.description)
                      /\ The(sent.body.priority) = formData.priority
               /\ errors' = NoErrors
          ELSE /\ inflight' = inflight
               /\ errors'.title # "" \/ errors'.description # ""
               /\ UNCHANGED <<formData, isSubmitting, appVars>>]_vars

\* A title of exactly TitleMaxLength characters has been submitted in edit
\* mode and the update carrying it is awaited.
C18_Witness ==
    /\ isSubmitting
    /\ Present(editingTask)
    /\ Len(formData.title) = TitleMaxLength
    /\ inflight # <<>>
    /\ inflight[1].caller = "handleUpdateTask"
    /\ Len(The(inflight[1].body.title)) = TitleMaxLength

\* A step that resumes the submit that is request k, in create mode or in
\* edit mode, with success or with failure.
SubmitResumes(k, caller, succeeds) ==
    /\ inflight[k].caller = caller
    /\ Present(Resolved(inflight[k])) = succeeds
    /\ SubmitDone(k)

\* C19 as stated: after a successful submit in create mode the form holds
\* an empty title, an empty description and priority medium; after a
\* successful submit in edit mode it holds the content submitted.
C19_EditKeepsContent ==
    [][\A k \in 1..Len(inflight) :
          /\ SubmitResumes(k, "handleCreateTask", TRUE)
                => formData' = InitialFormData
          /\ SubmitResumes(k, "handleUpdateTask", TRUE)
                => formData' = formData]_vars

\* C19: after a successful submit in create mode the form holds an empty
\* title, an empty description and priority medium; after a successful
\* submit in edit mode no task is edited any more and the form holds the
\* same empty content; a failed submit in edit mode changes neither the
\* task edited nor the content of the form.
C19_SuccessResetsForm ==
    [][\A k \in 1..Len(inflight) :
          /\ SubmitResumes(k, "handleCreateTask", TRUE)
                => formData' = InitialFormData
          /\ SubmitResumes(k, "handleUpdateTask", TRUE)
                => /\ editingTask' = None
                   /\ formData' = InitialFormData
          /\ SubmitResumes(k, "handleUpdateTask", FALSE)
                => /\ editingTask' = editingTask
                   /\ formData' = formData]_vars

\* An update submitted from the form has succeeded: the list holds the
\* record with the title submitted, no task is edited and the form is
\* empty.
C19_Witness ==
    /\ ui.event = "handleUpdateTask"
    /\ Present(ui.value)
    /\ The(ui.value) \in Range(tasks)
    /\ The(ui.value).title = <<"a", " ", "a">>
    /\ editingTask = None
    /\ formData = InitialFormData
    /\ ~isSubmitting

(***************************************************************************)
(* The API client.                                                         *)
(***************************************************************************)
\* The three messages the response interceptor chooses between for the
\* request r: the answer's own message where an answer with an error status
\* arrived (a fixed text where it carries none), the network text where the
\* request was sent and no answer arrived, the setup text otherwise.
ServerCase(r) == r.failure = "" /\ r.response.status \notin 200..299
NetworkCase(r) == r.failure = "request"
SetupCase(r) == r.failure = "setup"

ServerMessage(r) ==
    IF HasKey(r.response.body, "message") /\ r.response.body.message # ""
    THEN r.response.body.message
    ELSE "An error occurred"

\* A call of a function of the API client that ends on the outcome of its
\* request k: with an Error of the message of the one case that applies, or,
\* the answer being a success, with the data field of its envelope.
ReturnNormalized(k) ==
    LET r == inflight[k]
    IN  /\ ServerCase(r) =>
             ~Present(ui'.value) /\ ui'.message = ServerMessage(r)
        /\ NetworkCase(r) =>
             /\ ~Present(ui'.value)
             /\ ui'.message
                   = "Network error. Please check your internet connection."
        /\ SetupCase(r) =>
             /\ ~Present(ui'.value)
             /\ ui'.message = "Request failed. Please try again."
        /\ ~(ServerCase(r) \/ NetworkCase(r) \/ SetupCase(r)) =>
             /\ ui'.value = Some(r.response.body.data)
             /\ ui'.message = ""
        /\ ui'.message # "" <=> ~Present(ui'.value)

\* A step in which the call that awaits request k ends.
ApiReturnStep(k) == ui'.event = inflight[k].caller /\ ApiReturn(k)

\* A step in which a function of the API client throws before it sends a
\* request.
ThrowsUnsent == ui'.threw /\ ui'.event \in ApiFunctions /\ ui' # ui

\* C20 as stated: every call of the API client that fails ends with one
\* Error whose message is that of exactly one of the three cases of the
\* response interceptor, and every call that succeeds returns the data
\* field of the answer's envelope.
C20_EveryFailureNormalized ==
    [][/\ \A k \in 1..Len(inflight) : ApiReturnStep(k) => ReturnNormalized(k)
       /\ ThrowsUnsent =>
             ui'.message \in
                {"Network error. Please check your internet connection.",
                 "Request failed. Please try again.",
                 "An error occurred"}]_vars

\* C20: every call of the API client that issues its request and fails
\* ends with one Error whose message is that of exactly one of the three
\* cases of the response interceptor, and every call that succeeds returns
\* the data field of the answer's envelope; a call that createTask,
\* updateTask or deleteTask refuses for a blank title or a missing id
\* issues no request and ends with the Error of the function's own message.
C20_SentFailureNormalized ==
    [][/\ \A k \in 1..Len(inflight) : ApiReturnStep(k) => ReturnNormalized(k)
       /\ ThrowsUnsent =>
             /\ inflight' = inflight
             /\ ui'.message \in
                   {"Task title is required",
                    "Task ID is required for update",
                    "Task ID is required for deletion"}]_vars

\* updateTask has ended with the Error of the message the service answered
\* a request for an id it does not store with.
C20_Witness ==
    /\ ui.event = "updateTask"
    /\ ~ui.threw
    /\ ~Present(ui.value)
    /\ res.status = 404
    /\ ui.message = res.body.message
    /\ inflight = <<>>

(***************************************************************************)
(* C21  No retry is automatic.                                             *)
(***************************************************************************)
\* The requests of list that still await their outcome.
Unanswered(list) == Cardinality({k \in 1..Len(list) : ~list[k].answered})

\* A step in which the user clicks Retry, submits the form, clicks a
\* checkbox or confirms a delete.
UserActionStep ==
    \/ ui'.event = "fetchTasks" /\ Retry
    \/ ui'.event = "handleSubmit" /\ HandleSubmit
    \/ /\ ui'.event = "handleToggleComplete"
       /\ \E i \in 1..Len(tasks) : ToggleComplete(i)
    \/ /\ ui'.event = "handleDelete"
       /\ \E i \in 1..Len(tasks) : HandleDelete(i, TRUE)

\* C21: a step issues at most one request, and only a step in which the
\* user acts (Retry, submit, toggle, confirmed delete; the mount has issued
\* its one request in the initial state) issues one: no step in which a
\* request fails, times out or is answered, and no step in which a handler
\* resumes, adds a request or makes an answered one awaited again.  The
\* service sees every request at most once: a step that changes the state
\* of the service answers one request that was still awaited.
C21_NoAutomaticRetry ==
    [][/\ Len(inflight') <= Len(inflight) + 1
       /\ Unanswered(inflight') <= Unanswered(inflight) + 1
       /\ (\/ Len(inflight') > Len(inflight)
           \/ Unanswered(inflight') > Unanswered(inflight))
          => /\ UserActionStep
             /\ Len(inflight') = Len(inflight) + 1
             /\ ~inflight'[Len(inflight')].answered
             /\ Unmounted(SubSeq(inflight', 1, Len(inflight)))
                   = Unmounted(inflight)
       /\ serverVars' # serverVars
          => \E k \in 1..Len(inflight) :
                /\ ~inflight[k].answered
                /\ inflight' = [inflight EXCEPT ![k].answered = TRUE,
                                                ![k].response = res']]_vars

\* The fetch of the mount timed out, fetchTasks has resumed and reported it,
\* and no request is under way.
C21_Witness ==
    /\ ui.event = "fetchTasks"
    /\ ui.message = "Network error. Please check your internet connection."
    /\ error = "Failed to load tasks. Please try again."
    /\ ~loading
    /\ inflight = <<>>
    /\ req = NoRequest

(***************************************************************************)
(* The handlers of the task routes running concurrently: requests come in  *)
(* while the handlers of earlier ones await their persistence call, and    *)
(* the calls are executed in any order.                                    *)
(***************************************************************************)
\* The tasks stored when the first request comes in.
StoredAtStart == SubSeq(SeedTasks, 1, MaxFieldTasks)

\* Bodies for these requests: a title, an update of completed alone, a
\* priority outside the enum, and a title beside the last well-formed id.
HandlerBodies ==
    {Body(None, Some(TitleA), None, None, None),
     Body(None, None, None, Some("true"), None),
     Body(None, None, None, None, Some("urgent")),
     Body(Some(MaxIds), Some(TitleA), None, None, None)}

InitHandlers ==
    /\ db = StoredAtStart
    /\ clock = 0
    /\ nextOid = MaxFieldTasks + 1
    /\ req = NoRequest
    /\ res = NoResponse
    /\ deleted = {}
    /\ posted = [i \in 1..MaxIds |-> None]
    /\ handlers = <<>>
    /\ formData = InitialFormData
    /\ errors = NoErrors
    /\ isSubmitting = FALSE
    /\ tasks = <<>>
    /\ error = ""
    /\ editingTask = None
    /\ loading = TRUE
    /\ loadingTasks = {}
    /\ filter = "all"
    /\ sortBy = "newest"
    /\ inflight = <<>>
    /\ ui = Call("none", None, FALSE)

NextHandlers ==
    \/ \E fault \in BOOLEAN :
          Receive("GET /api/tasks", None, None, fault) /\ UNCHANGED clientVars
    \/ \E id \in RequestIds, fault \in BOOLEAN :
          /\ Receive("GET /api/tasks/:id", Some(id), None, fault)
          /\ UNCHANGED clientVars
    \/ \E body \in HandlerBodies, fault \in BOOLEAN :
          /\ Receive("POST /api/tasks", None, Some(body), fault)
          /\ UNCHANGED clientVars
    \/ \E id \in RequestIds, body \in HandlerBodies, fault \in BOOLEAN :
          /\ Receive("PUT /api/tasks/:id", Some(id), Some(body), fault)
          /\ UNCHANGED clientVars
    \/ \E id \in RequestIds, fault \in BOOLEAN :
          /\ Receive("DELETE /api/tasks/:id", Some(id), None, fault)
          /\ UNCHANGED clientVars
    \/ \E h \in 1..Len(handlers) : Persist(h) /\ UNCHANGED clientVars
    \/ \E h \in 1..Len(handlers) : Resume(h) /\ UNCHANGED clientVars
    \/ Tick /\ UNCHANGED clientVars

SpecHandlers == InitHandlers /\ [][NextHandlers]_vars

(***************************************************************************)
(* C22  A PUT and a DELETE of the same stored id, processed concurrently.  *)
(***************************************************************************)
\* Handler h serves a request of route for id, with no fault of the
\* persistence layer.
Serves(h, route, id) ==
    /\ handlers[h].request.route = route
    /\ handlers[h].request.id = Some(id)
    /\ ~handlers[h].request.fault

\* Handler h writes the record id: a PUT or a DELETE of it, or a POST whose
\* body names it.
Touches(h, id) ==
    IF handlers[h].request.route = "POST /api/tasks"
    THEN The(handlers[h].request.body).id = Some(id)
    ELSE /\ handlers[h].request.route
               \in {"PUT /api/tasks/:id", "DELETE /api/tasks/:id"}
         /\ handlers[h].request.id = Some(id)

\* p is a PUT and d a DELETE of the stored id, and no other request under
\* way or answered writes that record.
PutAndDelete(p, d, id) ==
    /\ id \in Ids(StoredAtStart)
    /\ Serves(p, "PUT /api/tasks/:id", id)
    /\ Serves(d, "DELETE /api/tasks/:id", id)
    /\ \A h \in 1..Len(handlers) : Touches(h, id) => h \in {p, d}

\* The response handler h has sent.
Answer(h) == handlers[h].sent[1]

\* The update of handler p is one that findByIdAndUpdate applies to a
\* record it finds.
Applicable(p, id) ==
    LET body == The(handlers[p].request.body) IN
    /\ ~UpdateInvalid(body)
    /\ Present(body.id) => The(body.id) = id

\* C22 as stated: when a PUT and a DELETE of the same stored id have both
\* been answered, either the PUT was answered 200 and the DELETE 200 with
\* the updated record, or the DELETE was answered 200 and the PUT 404; the
\* record is absent afterwards.
C22_PutDeleteSerial ==
    \A p, d \in 1..Len(handlers), id \in Oids :
        /\ PutAndDelete(p, d, id)
        /\ handlers[p].state = "done"
        /\ handlers[d].state = "done"
        => /\ Answer(d).status = 200
           /\ \/ /\ Answer(p).status = 200
                 /\ Answer(d).body.data = Answer(p).body.data
              \/ Answer(p).status = 404
           /\ id \notin Ids(db)

\* C22, amended: from the moment the DELETE's call is executed the record is
\* absent, whatever the PUT does before or after.  Once both are answered
\* the DELETE has 200; a PUT whose update is applicable has 200, and then
\* the DELETE returned the updated record, or has 404, and then the DELETE
\* returned the record as stored before; a PUT whose update fails
\* validation or names another _id has 400 or 404 and the DELETE returned
\* the record as stored before.
C22_PutDeleteSerialWhereValid ==
    \A p, d \in 1..Len(handlers), id \in Oids :
        PutAndDelete(p, d, id)
        => /\ handlers[d].state # "awaiting" => id \notin Ids(db)
           /\ handlers[p].state = "done" /\ handlers[d].state = "done"
              => /\ Answer(d).status = 200
                 /\ Answer(p).status \in {200, 400, 404}
                 /\ Answer(p).status = 200
                    => /\ Applicable(p, id)
                       /\ Answer(d).body.data = Answer(p).body.data
                 /\ Answer(p).status # 200
                    => Answer(d).body.data = StoredAtStart[id]
                 /\ Applicable(p, id) => Answer(p).status \in {200, 404}

\* The DELETE came in first and was awaiting its call when the call of the
\* PUT was executed; both are answered 200, the DELETE with the record as
\* the PUT left it, completed.
C22_Witness ==
    \E p, d \in 1..Len(handlers), id \in Oids :
        /\ PutAndDelete(p, d, id)
        /\ d < p
        /\ d \in handlers[p].others
        /\ handlers[p].state = "done"
        /\ handlers[d].state = "done"
        /\ Answer(p).status = 200
        /\ Answer(d).status = 200
        /\ Answer(d).body.data = Answer(p).body.data
        /\ Answer(d).body.data.completed
        /\ ~StoredAtStart[id].completed

NextFetch ==
    \/ \E value \in AppTitles : HandleInputChange("title", value)
    \/ HandleSubmit
    \/ \E k \in 1..Len(inflight) : SubmitDone(k)
    \/ Retry
    \/ \E k \in 1..Len(inflight) : FetchDone(k)
    \/ \E k \in 1..Len(inflight) : Deliver(k)
    \/ \E k \in 1..Len(inflight), kind \in {"request", "setup"} : Fail(k, kind)

SpecFetch == InitApp /\ [][NextFetch]_vars

(***************************************************************************)
(* C24  The loading flag.                                                  *)
(***************************************************************************)
\* A fetch of the list is under way: fetchTasks has been called and has
\* not resumed.
Fetching == \E k \in 1..Len(inflight) : inflight[k].caller = "fetchTasks"

\* C24: the loading flag is true from the start of every fetch until that
\* fetch completes: whenever a fetch is under way, loading is true.
C24_LoadingWhileFetching == Fetching => loading

\* A second fetch is under way and the flag is false: the fetch of the
\* mount has completed after Retry was clicked.
C24_Witness ==
    /\ Fetching
    /\ ~loading
    /\ ui.event = "fetchTasks"
    /\ Len(inflight) = 1

(***************************************************************************)
(* The list while a Retry reloads it: toggles and deletes are started,     *)
(* some fail, and the Retry button of the error banner unmounts the list   *)
(* while an action started from it is still awaited.                       *)
(***************************************************************************)
NextRemount ==
    \/ \E i \in 1..Len(tasks) : ToggleComplete(i)
    \/ \E k \in 1..Len(inflight) : ToggleDone(k)
    \/ \E i \in 1..Len(tasks), confirmed \in BOOLEAN : HandleDelete(i, confirmed)
    \/ \E k \in 1..Len(inflight) : DeleteDone(k)
    \/ Retry
    \/ \E k \in 1..Len(inflight) : FetchDone(k)
    \/ \E k \in 1..Len(inflight) : Deliver(k)
    \/ \E k \in 1..Len(inflight) : Fail(k, "request")

SpecRemount == InitRace /\ [][NextRemount]_vars

(***************************************************************************)
(* C25  The per-task loading markers.                                      *)
(***************************************************************************)
\* The ids of the tasks with a toggle or a delete started from the list
\* and not yet completed.
ListActionIds ==
    {The(inflight[k].id) :
        k \in {j \in 1..Len(inflight) :
                  inflight[j].caller
                     \in {"handleToggleComplete", "handleDeleteTask"}}}

\* C25: whenever the list is rendered, the loading set holds exactly the
\* ids of the tasks with a toggle or a confirmed delete started from the
\* list and not yet completed, whether or not its request has been answered
\* or has failed (so it is empty when no such action is under way); a
\* declined delete adds no marker and issues no request.
C25_MarkersWhileInFlight ==
    /\ ~loading => loadingTasks = ListActionIds
    /\ ui.event = "handleDelete declined"
       => The(ui.taskData).id \notin loadingTasks \ ListActionIds

\* A toggle is awaited, the list is rendered, and its task carries no
\* marker: the list was mounted anew after the toggle was started.
C25_Witness ==
    /\ ~loading
    /\ \E k \in 1..Len(inflight) :
          /\ inflight[k].caller = "handleToggleComplete"
          /\ ~inflight[k].mounted
          /\ The(inflight[k].id) \notin loadingTasks

(***************************************************************************)
(* C26  The list in memory against the tasks stored.                       *)
(***************************************************************************)
\* The list in memory holds exactly the tasks stored, each with the field
\* values stored.
ListMatchesStore ==
    /\ Len(tasks) = Len(db)
    /\ Range(tasks) = Range(db)

\* C26, for the runs in which nothing has been deleted, so that every
\* toggle started has found its task and succeeded: once no request is
\* under way, the list in memory holds exactly the tasks stored, each with
\* the field values stored.
C26_NoPatchLost ==
    inflight = <<>> /\ deleted = {} => ListMatchesStore

\* Two toggles that overlapped have both succeeded, no request is under
\* way, and a task that is stored as completed is not completed in memory.
C26_Witness ==
    /\ inflight = <<>>
    /\ deleted = {}
    /\ ui.event = "handleToggleComplete"
    /\ Present(ui.value)
    /\ \E i \in 1..Len(tasks), j \in 1..Len(db) :
          /\ tasks[i].id = db[j].id
          /\ db[j].completed
          /\ ~tasks[i].completed

(***************************************************************************)
(* One client whose fetches, creates, toggles and deletes overlap: an      *)
(* action is started while the requests of earlier ones are awaited, from  *)
(* the mount on; every request is answered.                                *)
(***************************************************************************)
NextOverlap ==
    \/ \E value \in RaceTitles : HandleInputChange("title", value)
    \/ HandleSubmit
    \/ \E k \in 1..Len(inflight) : SubmitDone(k)
    \/ \E i \in 1..Len(tasks) : ToggleComplete(i)
    \/ \E k \in 1..Len(inflight) : ToggleDone(k)
    \/ \E i \in 1..Len(tasks) : HandleDelete(i, TRUE)
    \/ \E k \in 1..Len(inflight) : DeleteDone(k)
    \/ Retry
    \/ \E k \in 1..Len(inflight) : FetchDone(k)
    \/ \E k \in 1..Len(inflight) : Deliver(k)

SpecOverlap == InitApp /\ [][NextOverlap]_vars

(***************************************************************************)
(* C27  No two entries of the list in memory share an id.                  *)
(***************************************************************************)
\* C27: in every state, whatever the order in which fetches, creates,
\* updates and deletes complete, no two entries of the list in memory have
\* the same id.
C27_NoDuplicateIds ==
    \A i, j \in 1..Len(tasks) : tasks[i].id = tasks[j].id => i = j

\* Completions have interleaved: a delete and another action overlapped,
\* the later one has put the deleted task back into the list in memory, and
\* the list holds two entries.
C27_Witness ==
    /\ inflight = <<>>
    /\ Len(tasks) = 2
    /\ \E i \in 1..Len(tasks) : tasks[i].id \in deleted

(***************************************************************************)
(* C28  The task being edited is in the list.                              *)
(***************************************************************************)
\* C28: whenever a task is being edited, a task with its id is in the list
\* in memory.
C28_EditedTaskListed ==
    Present(editingTask) => The(editingTask).id \in Ids(tasks)

\* The task being edited has been deleted from the list and from the
\* store by the delete button of its own row, and it is still being edited.
C28_Witness ==
    /\ Present(editingTask)
    /\ The(editingTask).id \notin Ids(tasks)
    /\ The(editingTask).id \in deleted
    /\ ui.event = "handleDeleteTask"
    /\ Present(ui.value)

(***************************************************************************)
(* C29  A toggle and the task being edited.                                *)
(***************************************************************************)
\* C29: a toggle that succeeds while a task is being edited leaves that
\* task being edited and leaves the content of the form as it is.
C29_ToggleKeepsEditing ==
    [][\A k \in 1..Len(inflight) :
          ToggleSucceeds(k) /\ Present(editingTask)
          => /\ editingTask' = editingTask
             /\ formData' = formData]_vars

(***************************************************************************)
(* C30  The form after a creation that failed.                             *)
(***************************************************************************)
\* C30: a submit in create mode whose request fails leaves the title, the
\* description and the priority in the form as the user entered them, and
\* the failure is reported in the error banner.
C30_FailedCreateKeepsForm ==
    [][\A k \in 1..Len(inflight) :
          SubmitResumes(k, "handleCreateTask", FALSE)
          => /\ formData' = formData
             /\ error' # ""]_vars

\* A creation has timed out: the banner reports it and the form, which
\* held the title submitted, is empty.
C30_Witness ==
    /\ ui.event = "handleCreateTask"
    /\ ui.message = "Network error. Please check your internet connection."
    /\ error = "Failed to create task. Please try again."
    /\ formData = InitialFormData
    /\ db = <<>>
    /\ ~isSubmitting

====
